---- MODULE Spec2Model ----
(***************************************************************************)
(* Pantree "subscribe & save" frequency analysis.                          *)
(*                                                                         *)
(* Dates are day numbers (every caller parses "%A, %B %d, %Y", so every    *)
(* datetime is a midnight and (a - b).days is the difference of the day    *)
(* numbers).  Real-valued quantities are fixed-point integers counted in   *)
(* 1/Unit: Unit = 30000 makes thirds (recency), tenths and hundredths, the *)
(* mean of up to 6 intervals and the regression slope of up to 5 intervals *)
(* exact; only the square root of stdev is truncated (to 1/Unit).          *)
(* round(x, k) is modelled as round-half-even of the exact value; the      *)
(* fields of the returned record are therefore integers counted in tenths  *)
(* (trend_slope in hundredths).  Where the exact value lies halfway        *)
(* between two tenths, the float the code holds can fall on either side,   *)
(* and the code's tenth can differ by one from the one computed here.      *)
(* The trend thresholds compare the unrounded float slope with -2 and 2;   *)
(* where the exact slope is exactly -2 or 2 the side the float falls on is *)
(* computed by carrying out the code's binary64 operations (sum, division, *)
(* products, left-to-right sum) on 14-bit limbs.                           *)
(***************************************************************************)
EXTENDS Integers, Sequences, FiniteSets, TLC

\* ---------------------------------------------------------------- bounds
MaxLen == 5                  \* longest purchase-date list handed to the engine
MaxInversions == 1           \* how far from sorted a purchase-date list may be

\* days between consecutive purchases the inputs are built from (scenario A:
\* 7,7,7; scenario C: 30,5,30,5; 0 is a second purchase on the same day)
Gaps == {0, 5, 7, 30}
\* a longer history whose intervals have a regression slope of exactly 2
TieGaps == {<<5, 0, 7, 30, 0>>}
\* reference dates, as days after the last purchase (negative: before it)
RefOffsets == {-30, 0, 29, 30, 150}

MaxReceipts == 3             \* receipts in a dataset
\* days between a customer's consecutive receipts (0: two receipts on one day)
ReceiptGaps == {0, 7}
\* the item lists of the receipts of each customer
Baskets == [c \in {"c1", "c2"} |->
              IF c = "c1" THEN {<<>>, <<"a">>, <<"b", "a">>,
                                <<"a", "b", "c", "d", "e", "f">>}
                          ELSE {<<"a">>}]
\* (min_purchases, min_confidence in tenths): the defaults, a lower count,
\* and no thresholds
Thresholds == {<<3, 500>>, <<2, 500>>, <<1, 0>>}
WallClock == {400}
\* what the Sagemaker endpoint does when invoked
EndpointOutcomes == {"error", "empty"}
\* a pickup_date text that strptime rejects, and an item dict without "name"
BadDate == 0 - 1
NoName == "?"
\* the receipts raw ingestion hands over on a day: well-formed ones (an item
\* listed once, twice, six items), one with a nameless item between two
\* named ones, one without "items", one whose date does not parse, one
\* without "pickup_date"
RawReceipts(day) ==
    { [pickup_date |-> day, items |-> b] :
         b \in {<<"a">>, <<"a", "a">>, <<"a", NoName, "b">>,
                <<"a", "b", "c", "d", "e", "f">>} }
    \cup { [pickup_date |-> day],
           [pickup_date |-> BadDate, items |-> <<"a">>],
           [items |-> <<"a">>] }
\* days between two receipts of raw ingestion
RawGap == 7
\* what the three Llama calls for one item do: all answer with JSON, all fall
\* back (endpoint unreachable or no JSON in the answer), or one of them raises
LlamaOutcomes == {"answered", "fallback", "raised"}
\* what the Llama endpoint answers when it answers: a suggestion, four related
\* products, a categorisation
LlamaAnswer ==
    [ ai_suggestion    |-> [ frequency |-> "weekly", interval_days |-> 7,
                             confidence |-> 90, reasoning |-> "bought every week" ],
      related_products |-> <<"g", "h", "i", "j">>,
      product_info     |-> [ category |-> "produce", subcategory |-> "fruit",
                             perishability |-> "high", typical_frequency |-> "weekly" ] ]
\* the streaming service
MaxStreamed == 3             \* receipts handed to stream_monthly_data
\* pickup days of the streamed receipts, day 0 being 1 December 2023: 1 and
\* 31 December 2023, 1 and 15 January, 29 February and 1 March 2024
StreamDays == {0, 30, 31, 45, 90, 91}
\* what the callback does when it is awaited
CallbackOutcomes == {"returns", "raises"}
\* the WebSocket endpoint
MaxMonths == 3               \* months the pipeline streams to the socket
\* what an awaited call on the socket does: it succeeds, raises
\* WebSocketDisconnect, or raises another exception
SocketOutcomes == {"ok", "disconnect", "error"}
\* what a stage of process_seed_purchase does
StageOutcomes == {"ok", "error"}
\* the data pipeline
MaxEmbeddings == 5           \* item embeddings made from the receipts
MaxBatchSize == 3            \* the largest batch_size
\* what db_client.insert does with a batch: returns True, returns False, raises
InsertOutcomes == {"true", "false", "raises"}
\* the purchase simulator
SimMonths == {0, 1}          \* the months argument
\* the seed purchases: no item, one item, two items, one name listed twice
SeedLists ==
    { <<>>,
      << [name |-> "milk", category |-> "dairy"] >>,
      << [name |-> "milk", category |-> "dairy"],
         [name |-> "rice", category |-> "grains"] >>,
      << [name |-> "milk", category |-> "dairy"],
         [name |-> "milk", category |-> "dairy"] >> }
\* the draws followed: of random.randint(a, b) the two ends
Draws(a, b) == {a, b}
\* the Sagemaker client on its own
MaxItems == 3                \* frequent items handed to get_recommendations
MaxTopK == 2                 \* the largest top_k asked for
MaxAnswered == 3             \* recommendations in an answer of the endpoint
\* confidence_score of a frequent item, in tenths; NoScore: the key is missing
NoScore == 0 - 1
ItemScores == {300, 900, NoScore}
MaxInterval == 300           \* the longest average interval named, in tenths of a day

\* --------------------------------------------------------------- settings
FREQ_MIN_PURCHASES == 3
FREQ_MIN_CONFIDENCE == 500   \* 50.0, in tenths
limit_customers == 5

\* ------------------------------------------------------------ arithmetic
\* fixed-point units per 1.0
Unit == 3 * 10000
\* Python's None, and the value of a result slot before the call returns
None == [absent |-> TRUE]
NotRun == [pending |-> TRUE]

Abs(a) == IF a < 0 THEN -a ELSE a
Min(a, b) == IF a <= b THEN a ELSE b
Max(a, b) == IF a >= b THEN a ELSE b

\* the element of a set of one element; The({e(x) : x \in {v}}) is e(v) with
\* v evaluated once, however often e uses x: x is a local variable holding v
The(S) == CHOOSE r \in S : TRUE

\* dict.get(key, default)
get(rec, key, default) == IF key \in DOMAIN rec THEN rec[key] ELSE default

RECURSIVE SumSeq(_)
SumSeq(s) == IF s = <<>> THEN 0 ELSE Head(s) + SumSeq(Tail(s))

\* round-half-even of num/den (den > 0) to an integer: Python's round()
Round(num, den) ==
    LET q == num \div den
        r == num % den
    IN  IF 2 * r < den THEN q
        ELSE IF 2 * r > den THEN q + 1
        ELSE IF q % 2 = 0 THEN q ELSE q + 1

\* floor(sqrt(x)) for an integer x >= 0, by bisection on [lo, hi)
RECURSIVE Bisect(_, _, _)
Bisect(x, lo, hi) ==
    IF hi - lo <= 1 THEN lo
    ELSE LET mid == (lo + hi) \div 2
         IN  IF mid * mid <= x THEN Bisect(x, mid, hi) ELSE Bisect(x, lo, mid)

ISqrt(x) == Bisect(x, 0, Min(x, 46340) + 1)

\* floor(10^k * sqrt(num/den)), digit by digit (c is the root so far, r the
\* remainder, f the remainder of the division num/den)
RECURSIVE SqrtDigits(_, _, _, _, _)
SqrtDigits(c, r, f, den, k) ==
    IF k = 0 THEN c
    ELSE LET t  == f * 100
             rr == 100 * r + (t \div den)
             d  == CHOOSE e \in 0..9 :
                      /\ (20 * c + e) * e <= rr
                      /\ (e = 9 \/ (20 * c + e + 1) * (e + 1) > rr)
         IN  SqrtDigits(10 * c + d, rr - (20 * c + d) * d, t % den, den, k - 1)

SqrtFix(num, den, k) ==
    LET x == num \div den
        c == ISqrt(x)
    IN  SqrtDigits(c, x - c * c, num % den, den, k)

\* mutant: the list is used in the order it was handed over
unsorted(ds) == ds

\* ---------------------------------------------- calculate_item_statistics
sorted(ds) == SortSeq(ds, LAMBDA a, b : a < b)

intervals(sd) == [i \in 1..(Len(sd) - 1) |-> sd[i + 1] - sd[i]]

\* statistics.mean(intervals), in 1/Unit
avg_interval(iv) == (SumSeq(iv) * Unit) \div Len(iv)

\* mutant: the population standard deviation (divides by n, not n - 1)
std_dev_population(iv) ==
    IF Len(iv) > 1
    THEN LET n == Len(iv)
             S == SumSeq(iv)
             Q == SumSeq([i \in 1..n |-> iv[i] * iv[i]])
         IN  SqrtFix(9 * (n * Q - S * S), n * n, 4)
    ELSE 0

\* statistics.stdev(intervals) if len(intervals) > 1 else 0, in 1/Unit:
\* sqrt(sum((x - mean)^2) / (n - 1)) = sqrt((n*sum(x^2) - sum(x)^2) / (n*(n-1)))
std_dev(iv) ==
    IF Len(iv) > 1
    THEN LET n == Len(iv)
             S == SumSeq(iv)
             Q == SumSeq([i \in 1..n |-> iv[i] * iv[i]])
         IN  SqrtFix(9 * (n * Q - S * S), n * (n - 1), 4)
    ELSE 0

\* mutant: a zero average interval counts as no variation at all
coefficient_of_variation_zero(std, iv) ==
    IF avg_interval(iv) > 0
    THEN (std * 100 * Len(iv)) \div SumSeq(iv)
    ELSE 0

\* (std_dev / avg_interval * 100) if avg_interval > 0 else 100, in 1/Unit;
\* avg_interval is sum(intervals)/len(intervals), so the quotient is
\* std_dev * len / sum
coefficient_of_variation(std, iv) ==
    IF avg_interval(iv) > 0
    THEN (std * 100 * Len(iv)) \div SumSeq(iv)
    ELSE 100 * Unit

\* max(0, min(100, 100 - coefficient_of_variation))
consistency_score(cv) == Max(0, Min(100 * Unit, 100 * Unit - cv))

\* least-squares slope of the intervals against their 0-based index, in
\* 1/Unit; 0 with fewer than 3 intervals.  With x_mean = (n-1)/2 and
\* y_mean = S/n: numerator = num2n/(2n), denominator = den4/4.
trend_slope(iv) ==
    IF Len(iv) >= 3
    THEN LET n     == Len(iv)
             S     == SumSeq(iv)
             num2n == SumSeq([i \in 1..n |-> (2 * (i - 1) - (n - 1)) * (n * iv[i] - S)])
             den4  == SumSeq([i \in 1..n |-> (2 * (i - 1) - (n - 1)) * (2 * (i - 1) - (n - 1))])
         IN  IF den4 # 0
             THEN IF num2n >= 0
                  THEN (2 * num2n * Unit) \div (n * den4)
                  ELSE -((2 * (-num2n) * Unit) \div (n * den4))
             ELSE 0
    ELSE 0

\* --- the slope as the interpreter's binary64 arithmetic computes it.
\* A magnitude is a string of limbs of 14 bits, least significant first,
\* counted in units of 2^-56 (every intermediate value of the regression is
\* a multiple of 2^-56 for up to 8 intervals); a float is a sign and a
\* magnitude.
Limb == 128 * 128

RECURSIVE Pow2(_)
Pow2(b) == IF b = 0 THEN 1 ELSE 2 * Pow2(b - 1)

RECURSIVE NatLimbs(_)
NatLimbs(x) == IF x = 0 THEN <<>> ELSE <<x % Limb>> \o NatLimbs(x \div Limb)

LimbAt(a, i) == IF i \in DOMAIN a THEN a[i] ELSE 0

\* the number of limbs up to the highest one that is not zero
TopLimb(a) ==
    IF \E i \in DOMAIN a : a[i] # 0
    THEN CHOOSE i \in DOMAIN a : a[i] # 0 /\ \A j \in DOMAIN a : j > i => a[j] = 0
    ELSE 0

\* the number of significant bits
BitLen(a) ==
    LET t == TopLimb(a)
    IN  IF t = 0 THEN 0
        ELSE 14 * (t - 1) + (CHOOSE k \in 1..14 : Pow2(k - 1) <= a[t] /\ a[t] < Pow2(k))

RECURSIVE AddFrom(_, _, _, _)
AddFrom(a, b, i, carry) ==
    IF i > Max(Len(a), Len(b)) THEN (IF carry > 0 THEN <<carry>> ELSE <<>>)
    ELSE LET t == LimbAt(a, i) + LimbAt(b, i) + carry
         IN  <<t % Limb>> \o AddFrom(a, b, i + 1, t \div Limb)

BigAdd(a, b) == AddFrom(a, b, 1, 0)

\* a - b for a >= b
RECURSIVE SubFrom(_, _, _, _)
SubFrom(a, b, i, borrow) ==
    IF i > Len(a) THEN <<>>
    ELSE LET t == LimbAt(a, i) - LimbAt(b, i) - borrow
         IN  <<t % Limb>> \o SubFrom(a, b, i + 1, IF t < 0 THEN 1 ELSE 0)

BigSub(a, b) == SubFrom(a, b, 1, 0)

BigLess(a, b) ==
    LET n == Max(Len(a), Len(b))
    IN  \E i \in 1..n : /\ LimbAt(a, i) < LimbAt(b, i)
                        /\ \A j \in (i + 1)..n : LimbAt(a, j) = LimbAt(b, j)

\* a * k for a small k >= 0
RECURSIVE MulFrom(_, _, _, _)
MulFrom(a, k, i, carry) ==
    IF i > Len(a) THEN NatLimbs(carry)
    ELSE LET t == a[i] * k + carry
         IN  <<t % Limb>> \o MulFrom(a, k, i + 1, t \div Limb)

MulSmall(a, k) == MulFrom(a, k, 1, 0)

\* quotient and remainder of a by a small n > 0
RECURSIVE DivSmall(_, _)
DivSmall(a, n) ==
    IF a = <<>> THEN [q |-> <<>>, r |-> 0]
    ELSE The({ The({ [q |-> <<t \div n>> \o h.q, r |-> t % n] :
                     t \in {h.r * Limb + Head(a)} }) :
               h \in {DivSmall(Tail(a), n)} })

\* a * 2^s and floor(a / 2^s)
ShiftLeft(a, s) == [i \in 1..(s \div 14) |-> 0] \o MulSmall(a, Pow2(s % 14))
ShiftRight(a, s) ==
    LET w == s \div 14
        b == s % 14
    IN  [i \in 1..(Len(a) - w) |->
            (a[i + w] \div Pow2(b)) + (LimbAt(a, i + w + 1) % Pow2(b)) * Pow2(14 - b)]

\* bit i of a, the lowest being bit 1
BitAt(a, i) == (LimbAt(a, (i - 1) \div 14 + 1) \div Pow2((i - 1) % 14)) % 2

\* round to nearest, ties to even, to the 53 significant bits of a binary64;
\* sticky: bits below the string were cut off and at least one of them was set
RoundBits(a, d, sticky) ==
    IF d <= 0 THEN a
    ELSE LET rest == sticky \/ BigLess(ShiftLeft(ShiftRight(a, d - 1), d - 1), a)
             up(q) == BitAt(a, d) = 1 /\ (rest \/ BitAt(q, 1) = 1)
         IN  The({ ShiftLeft(IF up(q) THEN BigAdd(q, <<1>>) ELSE q, d) :
                   q \in {ShiftRight(a, d)} })

RoundFloat(a, sticky) ==
    The({ The({ RoundBits(v, d, sticky) : d \in {BitLen(v) - 53} }) : v \in {a} })

\* float x + float y, rounded
FloatSum(x, y) ==
    The({ [neg |-> e.neg, mag |-> RoundFloat(e.mag, FALSE)] :
          e \in { IF x.neg = y.neg THEN [neg |-> x.neg, mag |-> BigAdd(x.mag, y.mag)]
                  ELSE IF BigLess(x.mag, y.mag)
                  THEN [neg |-> y.neg, mag |-> BigSub(y.mag, x.mag)]
                  ELSE [neg |-> x.neg, mag |-> BigSub(x.mag, y.mag)] } })

FloatAdd(x, y) == The({ FloatSum(u, v) : u \in {x}, v \in {y} })

\* y_mean = sum(intervals) / n: the quotient to 70 binary places, rounded
y_mean(iv) ==
    The({ [neg |-> FALSE, mag |-> ShiftRight(RoundFloat(d.q, d.r # 0), 14)] :
          d \in {DivSmall(ShiftLeft(NatLimbs(SumSeq(iv)), 70), Len(iv))} })

\* (x[i] - x_mean) * (intervals[i] - y_mean), i counted from 0; x[i] - x_mean
\* is the exact half-integer (2*i - (n - 1)) / 2
product(iv, i, ym) ==
    LET k == 2 * i - (Len(iv) - 1)
    IN  The({ [neg |-> (diff.neg # (k < 0)),
               mag |-> RoundFloat(ShiftRight(MulSmall(diff.mag, Abs(k)), 1), FALSE)] :
              diff \in {FloatAdd([neg |-> FALSE,
                                  mag |-> ShiftLeft(NatLimbs(iv[i + 1]), 56)],
                                 [neg |-> TRUE, mag |-> ym.mag])} })

\* numerator = sum(... for i in range(n)): the terms are added left to right,
\* each partial sum rounded (the sum() of CPython up to 3.11)
RECURSIVE numerator(_, _, _)
numerator(iv, m, ym) ==
    IF m = 0 THEN [neg |-> FALSE, mag |-> <<>>]
    ELSE FloatAdd(numerator(iv, m - 1, ym), product(iv, m - 1, ym))

\* on which side of [-2, 2] numerator / denominator falls: -1 below -2, 1
\* above 2, 0 inside.  The quotient rounds to a float above 2 exactly when it
\* exceeds 2 + 2^-52, half-way to the next float; the denominator is den4 / 4.
slope_side(iv) ==
    LET n    == Len(iv)
        den4 == SumSeq([i \in 1..n |-> (2 * (i - 1) - (n - 1)) * (2 * (i - 1) - (n - 1))])
        lim  == MulSmall(BigAdd(ShiftLeft(<<1>>, 57), ShiftLeft(<<1>>, 4)), den4)
    IN  The({ IF BigLess(lim, ShiftLeft(num.mag, 2))
              THEN (IF num.neg THEN -1 ELSE 1)
              ELSE 0 :
              num \in {The({ numerator(iv, n, ym) : ym \in {y_mean(iv)} })} })

\* the label; slope is the exact slope in 1/Unit.  An exact slope other than
\* -2 or 2 is at least 1/(n * den4) away from them, far more than the float
\* error, so the float falls on the same side; at exactly -2 or 2 the float
\* arithmetic decides.
trend(iv, slope) ==
    IF Len(iv) >= 3
    THEN The({ IF slope < -2 * Unit \/ (slope = -2 * Unit /\ side < 0)
               THEN "increasing frequency"
               ELSE IF slope > 2 * Unit \/ (slope = 2 * Unit /\ side > 0)
               THEN "decreasing frequency"
               ELSE "stable" :
               side \in {IF Abs(slope) = 2 * Unit THEN slope_side(iv) ELSE 0} })
    ELSE "insufficient data"

days_since_last(sd, cur) == cur - sd[Len(sd)]

\* mutant: the sign of the decay is flipped
recency_score_growing(dsl) == Max(0, 100 * Unit + (dsl * 20 * Unit) \div 30)

\* max(0, 100 - (days_since_last / 30 * 20)), in 1/Unit
recency_score(dsl) == Max(0, 100 * Unit - (dsl * 20 * Unit) \div 30)

\* mutant: saturates at 5 purchases instead of 10
purchase_count_score_of_five(count) == Min(100 * Unit, (count * 100 * Unit) \div 5)

\* min(100, (len(dates) / 10) * 100), in 1/Unit
purchase_count_score(count) == Min(100 * Unit, (count * 100 * Unit) \div 10)

\* max(0, 100 - abs(trend_slope) * 5), in 1/Unit
trend_stability_score(slope) == Max(0, 100 * Unit - Abs(slope) * 5)

\* mutant: the four scores weigh the same
confidence_equal_weights(cons, rec, pcs, tss) == (cons + rec + pcs + tss) * 25

\* the weighted sum, in 1/(100*Unit)
confidence(cons, rec, pcs, tss) == cons * 35 + rec * 25 + pcs * 25 + tss * 15

\* the scores before presentation rounding, in 1/Unit (confidence in
\* 1/(100*Unit)), as the body of calculate_item_statistics computes them
Scores(ds, cur) ==
    LET sorted_dates == sorted(ds)
        iv    == intervals(sorted_dates)
        avg   == avg_interval(iv)
        std   == std_dev(iv)
        cv    == coefficient_of_variation(std, iv)
        cons  == consistency_score(cv)
        slope == trend_slope(iv)
        dsl   == days_since_last(sorted_dates, cur)
        rec   == recency_score(dsl)
        pcs   == purchase_count_score(Len(ds))
        tss   == trend_stability_score(slope)
    IN  [ avg_interval |-> avg, std_dev |-> std, coefficient_of_variation |-> cv,
          consistency_score |-> cons, trend_slope |-> slope, trend |-> trend(iv, slope),
          days_since_last |-> dsl, recency_score |-> rec,
          purchase_count_score |-> pcs, trend_stability_score |-> tss,
          confidence |-> confidence(cons, rec, pcs, tss) ]

\* the record calculate_item_statistics returns (tenths; trend_slope hundredths)
StatsRecord(ds, cur) ==
    The({ [ count                    |-> Len(ds),
            avg_interval             |-> Round(s.avg_interval * 10, Unit),
            std_dev                  |-> Round(s.std_dev * 10, Unit),
            coefficient_of_variation |-> Round(s.coefficient_of_variation, Unit \div 10),
            consistency_score        |-> Round(s.consistency_score, Unit \div 10),
            trend                    |-> s.trend,
            trend_slope              |-> Round(s.trend_slope, Unit \div 100),
            days_since_last          |-> s.days_since_last,
            recency_score            |-> Round(s.recency_score, Unit \div 10),
            confidence               |-> Round(s.confidence, 10 * Unit) ] :
          s \in {Scores(ds, cur)} })

\* mutant: absent below three purchases
calculate_from_three(ds, cur) ==
    IF Len(ds) < 3 THEN None ELSE StatsRecord(ds, cur)

calculate_item_statistics(ds, cur) ==
    IF Len(ds) < 2 THEN None ELSE StatsRecord(ds, cur)

\* the cadence label the report prints for an average interval (tenths)
suggestion(interval) ==
    IF interval <= 80 THEN "weekly"
    ELSE IF interval <= 160 THEN "bi-weekly"
    ELSE IF interval <= 240 THEN "every 3 weeks"
    ELSE "monthly"

\* the confidence level the report prints (tenths)
conf_level(conf) ==
    IF conf >= 800 THEN "VERY HIGH"
    ELSE IF conf >= 650 THEN "HIGH"
    ELSE IF conf >= 500 THEN "MODERATE"
    ELSE "LOW"

\* ------------------------------------------------- grouping and filtering
\* A dict is a sequence of entries in insertion order.  An item is modelled
\* by its name, an item dict without "name" by NoName; a pickup date is a day
\* number, a text strptime rejects is BadDate; a receipt without a key is a
\* record without that field.

\* datetime.strptime(receipt["pickup_date"], ...) returns: the key is there
\* (no KeyError) and its text is a date (no ValueError)
date_parses(receipt) ==
    "pickup_date" \in DOMAIN receipt /\ receipt.pickup_date # BadDate

\* mutant: a date is kept once per item
dict_append_once(ip, name, date) ==
    IF \E i \in DOMAIN ip : ip[i].name = name
    THEN [i \in DOMAIN ip |->
            IF ip[i].name = name /\ \A k \in DOMAIN ip[i].dates : ip[i].dates[k] # date
            THEN [ip[i] EXCEPT !.dates = Append(@, date)] ELSE ip[i]]
    ELSE Append(ip, [name |-> name, dates |-> <<date>>])

\* item_purchases[name].append(date)
dict_append(ip, name, date) ==
    IF \E i \in DOMAIN ip : ip[i].name = name
    THEN [i \in DOMAIN ip |->
            IF ip[i].name = name THEN [ip[i] EXCEPT !.dates = Append(@, date)] ELSE ip[i]]
    ELSE Append(ip, [name |-> name, dates |-> <<date>>])

\* for item in receipt["items"]: item_purchases[item["name"]].append(date);
\* item["name"] raises KeyError on an item without a name, which ends the
\* loop with the earlier items appended
RECURSIVE append_items(_, _, _)
append_items(ip, items, date) ==
    IF items = <<>> \/ Head(items) = NoName THEN ip
    ELSE append_items(dict_append(ip, Head(items), date), Tail(items), date)

\* for receipt in receipts: try: ... except (ValueError, KeyError): continue
RECURSIVE item_purchases(_, _)
item_purchases(ip, receipts) ==
    IF receipts = <<>> THEN ip
    ELSE item_purchases(IF date_parses(Head(receipts))
                        THEN append_items(ip, get(Head(receipts), "items", <<>>),
                                          Head(receipts).pickup_date)
                        ELSE ip,
                        Tail(receipts))

\* [d for dates in item_purchases.values() for d in dates]
RECURSIVE all_dates(_)
all_dates(ip) == IF ip = <<>> THEN <<>> ELSE Head(ip).dates \o all_dates(Tail(ip))

\* mutant: the earliest date instead of the latest
earliest(ds) == CHOOSE d \in {ds[i] : i \in DOMAIN ds} : \A i \in DOMAIN ds : d <= ds[i]

max(ds) == CHOOSE d \in {ds[i] : i \in DOMAIN ds} : \A i \in DOMAIN ds : ds[i] <= d

\* mutant: the purchase-count threshold is exclusive
recurring_item_above(name, ds, ref, minp, minc) ==
    IF Len(ds) > minp
    THEN LET st == calculate_item_statistics(ds, ref)
         IN  IF st # None /\ st.confidence >= minc
             THEN <<[name |-> name] @@ st>>
             ELSE <<>>
    ELSE <<>>

\* mutant: an item without statistics passes with a confidence of 0
recurring_item_absent_passes(name, ds, ref, minp, minc) ==
    IF Len(ds) >= minp
    THEN LET st == calculate_item_statistics(ds, ref)
         IN  IF st = None
             THEN (IF 0 >= minc
                   THEN <<[name |-> name, count |-> Len(ds), avg_interval |-> 0,
                           confidence |-> 0]>>
                   ELSE <<>>)
             ELSE IF st.confidence >= minc THEN <<[name |-> name] @@ st>> ELSE <<>>
    ELSE <<>>

\* the loop body over one item: the purchase-count threshold, the engine, the
\* confidence threshold; the entry appended to the results, if any
recurring_item(name, ds, ref, minp, minc) ==
    IF Len(ds) >= minp
    THEN The({ IF st # None /\ st.confidence >= minc
               THEN <<[name |-> name] @@ st>>
               ELSE <<>> :
               st \in {calculate_item_statistics(ds, ref)} })
    ELSE <<>>

RECURSIVE recurring_items(_, _, _, _)
recurring_items(ip, ref, minp, minc) ==
    IF ip = <<>> THEN <<>>
    ELSE recurring_item(Head(ip).name, Head(ip).dates, ref, minp, minc)
            \o recurring_items(Tail(ip), ref, minp, minc)

\* mutant: an entry goes before the entries of equal confidence
insert_before_ties(t, x) ==
    LET k == Cardinality({i \in DOMAIN t : t[i].confidence > x.confidence})
    IN  SubSeq(t, 1, k) \o <<x>> \o SubSeq(t, k + 1, Len(t))

\* list.sort(key=confidence, reverse=True): stable, highest first
insert_desc(t, x) ==
    LET k == Cardinality({i \in DOMAIN t : t[i].confidence >= x.confidence})
    IN  SubSeq(t, 1, k) \o <<x>> \o SubSeq(t, k + 1, Len(t))

\* mutant: the results stay in insertion order
insertion_order(s) == s

RECURSIVE sort_by_confidence(_)
sort_by_confidence(s) ==
    IF s = <<>> THEN <<>>
    ELSE insert_desc(sort_by_confidence(SubSeq(s, 1, Len(s) - 1)), s[Len(s)])

\* s[:k]
Take(s, k) == SubSeq(s, 1, Min(k, Len(s)))

\* mutant: without purchase dates the reference date is day 0
run_frequency_analysis_from_epoch(receipts, wallclock, minp, minc) ==
    LET ip  == item_purchases(<<>>, receipts)
        ad  == all_dates(ip)
        ref == IF ad # <<>> THEN max(ad) ELSE 0
    IN  [ reference_date |-> ref,
          results        |-> sort_by_confidence(recurring_items(ip, ref, minp, minc)) ]

\* SubscribeSaveOrchestrator._run_frequency_analysis
run_frequency_analysis(receipts, wallclock, minp, minc) ==
    LET ip  == item_purchases(<<>>, receipts)
        ad  == all_dates(ip)
        ref == IF ad # <<>> THEN max(ad) ELSE wallclock
    IN  [ reference_date |-> ref,
          results        |-> sort_by_confidence(recurring_items(ip, ref, minp, minc)) ]

\* step 5 of process_seed_purchase with Sagemaker disabled
fallback_recommendations(fr) == Take(sort_by_confidence(fr), 5)

\* analyze_customer_frequency, step 1: the most recent pickup date of the
\* whole dataset, datetime.now() if there is none
RECURSIVE dataset_dates(_, _)
dataset_dates(ds, order) ==
    IF order = <<>> THEN <<>>
    ELSE The({ [i \in DOMAIN parsed |-> parsed[i].pickup_date] :
               parsed \in {SelectSeq(ds[Head(order)], date_parses)} })
            \o dataset_dates(ds, Tail(order))

acf_reference_date(ds, order, wallclock) ==
    LET d == dataset_dates(ds, order)
    IN  IF d # <<>> THEN max(d) ELSE wallclock

\* one printed recommendation
report_line(item) ==
    [ name |-> item.name, suggestion |-> suggestion(item.avg_interval),
      confidence |-> item.confidence, conf_level |-> conf_level(item.confidence) ]

\* mutant: the purchases are keyed by item name only, so every customer is
\* analysed on the purchases of all customers
RECURSIVE acf_report_pooled(_, _, _, _, _, _, _)
acf_report_pooled(ds, order, ref, minp, minc, customers_analyzed, limit) ==
    IF order = <<>> \/ customers_analyzed >= limit THEN <<>>
    ELSE LET ri == recurring_items(item_purchases(<<>>, ds["c1"] \o ds["c2"]),
                                   ref, minp, minc)
         IN  IF ri # <<>>
             THEN <<[ customer_id     |-> Head(order),
                      recurring_items |-> sort_by_confidence(ri),
                      shown           |-> [i \in DOMAIN Take(sort_by_confidence(ri), 10) |->
                                              report_line(sort_by_confidence(ri)[i])] ]>>
                     \o acf_report_pooled(ds, Tail(order), ref, minp, minc,
                                          customers_analyzed + 1, limit)
             ELSE acf_report_pooled(ds, Tail(order), ref, minp, minc,
                                    customers_analyzed, limit)

\* analyze_customer_frequency, steps 2 and 3: the customers in the order they
\* entered customer_purchases, at most limit_customers of them reported
RECURSIVE acf_report(_, _, _, _, _, _, _)
acf_report(ds, order, ref, minp, minc, customers_analyzed, limit) ==
    IF order = <<>> \/ customers_analyzed >= limit THEN <<>>
    ELSE The({
             IF ri # <<>>
             THEN The({ <<[ customer_id     |-> Head(order),
                            recurring_items |-> st,
                            shown           |-> [i \in DOMAIN Take(st, 10) |->
                                                    report_line(st[i])] ]>> :
                        st \in {sort_by_confidence(ri)} })
                     \o acf_report(ds, Tail(order), ref, minp, minc,
                                   customers_analyzed + 1, limit)
             ELSE acf_report(ds, Tail(order), ref, minp, minc, customers_analyzed, limit) :
             ri \in {recurring_items(item_purchases(<<>>, ds[Head(order)]),
                                     ref, minp, minc)} })

\* LlamaNIMClient.suggest_subscription_frequency when generate() returns no
\* parsable JSON (an unreachable endpoint makes it return ""): the heuristic.
\* avg_interval_days in tenths; int() cuts the fraction off
suggest_subscription_frequency(avg_interval_days) ==
    [ frequency     |-> IF avg_interval_days <= 80 THEN "weekly"
                        ELSE IF avg_interval_days <= 160 THEN "bi-weekly"
                        ELSE "monthly",
      interval_days |-> avg_interval_days \div 10,
      confidence    |-> 50,
      reasoning     |-> "Fallback heuristic based on average interval" ]

\* EnhancedFrequencyAnalyzer.analyze_with_ai_enhancement with the Llama
\* endpoint unreachable: the three client calls fall back
analyze_with_ai_enhancement(item_stats) ==
    [ ai_suggestion    |-> suggest_subscription_frequency(get(item_stats, "avg_interval", 300)),
      related_products |-> <<>>,
      product_info     |-> [ category |-> "unknown", subcategory |-> "unknown",
                             perishability |-> "medium", typical_frequency |-> "monthly" ] ]
        @@ item_stats

\* step 4b of process_seed_purchase: the first 5 items are enhanced
llama_enhancement(fr) ==
    [i \in DOMAIN fr |-> IF i <= 5 THEN analyze_with_ai_enhancement(fr[i]) ELSE fr[i]]

\* mutant: the answer of the Llama endpoint is merged into the item itself
enhance_item_merged(item, outcome) ==
    IF outcome = "raised" THEN item
    ELSE IF outcome = "answered"
         THEN LlamaAnswer.ai_suggestion @@ item
         ELSE analyze_with_ai_enhancement(item)

\* the loop body of step 4b: analyze_with_ai_enhancement on one item; when
\* the call raises the item is appended as it is
enhance_item(item, outcome) ==
    IF outcome = "raised" THEN item
    ELSE IF outcome = "answered"
         THEN [ ai_suggestion    |-> LlamaAnswer.ai_suggestion,
                related_products |-> Take(LlamaAnswer.related_products, 3),
                product_info     |-> LlamaAnswer.product_info ] @@ item
         ELSE analyze_with_ai_enhancement(item)

\* step 4b of process_seed_purchase: the first 5 items go through the loop,
\* the others are appended after them
llama_step(fr, outcomes) ==
    [i \in DOMAIN fr |-> IF i <= 5 THEN enhance_item(fr[i], outcomes[i]) ELSE fr[i]]

\* RecommendationService._enrich_recommendation (avg_interval in tenths; the
\* records carry no price, so the estimated savings are 0)
enrich_recommendation(recommendation) ==
    LET avg  == get(recommendation, "avg_interval_days", 300)
        band == IF avg <= 80 THEN <<"weekly", 7>>
                ELSE IF avg <= 160 THEN <<"bi-weekly", 14>>
                ELSE IF avg <= 240 THEN <<"tri-weekly", 21>>
                ELSE <<"monthly", 30>>
    IN  [ subscription |-> [ frequency |-> band[1], interval_days |-> band[2],
                             estimated_annual_savings |-> 0,
                             discount_percentage |-> 50 ] ]
           @@ recommendation

\* sorted(frequent_items, key=confidence_score or 0, reverse=True): stable
insert_by_score(t, x) ==
    LET k == Cardinality({i \in DOMAIN t :
                 get(t[i], "confidence_score", 0) >= get(x, "confidence_score", 0)})
    IN  SubSeq(t, 1, k) \o <<x>> \o SubSeq(t, k + 1, Len(t))

RECURSIVE sorted_by_score(_)
sorted_by_score(s) ==
    IF s = <<>> THEN <<>>
    ELSE insert_by_score(sorted_by_score(SubSeq(s, 1, Len(s) - 1)), s[Len(s)])

\* SagemakerClient._fallback_recommendations; recommendation_score in
\* thousandths (confidence_score / 100, the score counted in tenths)
sagemaker_fallback_recommendations(frequent_items, top_k) ==
    LET top == Take(sorted_by_score(frequent_items), top_k)
    IN  [i \in DOMAIN top |->
            [ recommendation_score |-> get(top[i], "confidence_score", 500),
              source |-> "fallback_heuristic" ] @@ top[i]]

\* what the Sagemaker runtime does, by the name of the outcome: the call
\* raises, or the endpoint answers a JSON object without recommendations
EndpointOutcome(endpoint) ==
    IF endpoint = "error" THEN [raises |-> TRUE]
    ELSE [body |-> [model |-> "none"]]

\* SagemakerClient.invoke_endpoint: the parsed body, or {"error": ...} when
\* anything raises
invoke_endpoint(outcome) ==
    IF "raises" \in DOMAIN outcome THEN [error |-> "endpoint unavailable"]
    ELSE outcome.body

\* SagemakerClient.get_recommendations, the endpoint doing outcome
get_recommendations(frequent_items, top_k, outcome) ==
    The({ IF "error" \in DOMAIN response
          THEN sagemaker_fallback_recommendations(frequent_items, top_k)
          ELSE get(response, "recommendations", <<>>) :
          response \in {invoke_endpoint(outcome)} })

\* RecommendationService.generate_recommendations
generate_recommendations(frequency_analysis, minc, top_k, endpoint) ==
    LET filtered_items == SelectSeq(frequency_analysis,
                              LAMBDA item : get(item, "confidence_score", 0) >= minc)
        recs == get_recommendations(filtered_items, top_k, EndpointOutcome(endpoint))
    IN  IF filtered_items = <<>>
        THEN [ recommendations |-> <<>>,
               metadata |-> [ total_analyzed |-> Len(frequency_analysis),
                              filtered_count |-> 0,
                              confidence_threshold |-> minc ] ]
        ELSE [ recommendations |-> [i \in DOMAIN recs |-> enrich_recommendation(recs[i])],
               metadata |-> [ total_analyzed |-> Len(frequency_analysis),
                              filtered_count |-> Len(filtered_items),
                              confidence_threshold |-> minc ] ]

\* process_seed_purchase from the frequency analysis on: the counts of step
\* 4, step 4b and step 5 on the result r of _run_frequency_analysis
seed_purchase_steps(r, minc, enable_llama, enable_sagemaker, endpoint) ==
    LET s4 == [ items_analyzed |-> Len(r.results),
                high_confidence_items |->
                    Cardinality({i \in DOMAIN r.results :
                                    get(r.results[i], "confidence", 0) >= minc}) ]
        fr == IF enable_llama /\ r.results # <<>> THEN llama_enhancement(r.results)
              ELSE r.results
        st == IF enable_llama /\ r.results # <<>>
              THEN [items_enhanced |-> Min(5, Len(fr))] @@ s4
              ELSE s4
        g  == generate_recommendations(fr, minc, 5, endpoint)
    IN  [ reference_date    |-> r.reference_date,
          frequency_results |-> fr,
          steps             |-> st,
          recommendations   |-> IF enable_sagemaker THEN g.recommendations
                                ELSE fallback_recommendations(fr),
          metadata          |-> IF enable_sagemaker THEN g.metadata
                                ELSE [source |-> "fallback", total_analyzed |-> Len(fr)] ]

\* process_seed_purchase, steps 4, 4b and 5, on a customer's receipts
process_seed_purchase(receipts, wallclock, minp, minc, enable_llama, enable_sagemaker, endpoint) ==
    The({ seed_purchase_steps(r, minc, enable_llama, enable_sagemaker, endpoint) :
          r \in {run_frequency_analysis(receipts, wallclock, minp, minc)} })

\* ----------------------------------------------------------- streaming
\* the Gregorian calendar
IsLeap(y) == (y % 4 = 0 /\ y % 100 # 0) \/ y % 400 = 0

DaysInMonth(y, mo) ==
    IF mo = 2 THEN (IF IsLeap(y) THEN 29 ELSE 28)
    ELSE IF mo \in {4, 6, 9, 11} THEN 30 ELSE 31

\* the date of a day number, counted from the first of the month (y, mo)
RECURSIVE DateFrom(_, _, _)
DateFrom(y, mo, day) ==
    IF day < DaysInMonth(y, mo) THEN [year |-> y, month |-> mo, day |-> day + 1]
    ELSE DateFrom(IF mo = 12 THEN y + 1 ELSE y, IF mo = 12 THEN 1 ELSE mo + 1,
                  day - DaysInMonth(y, mo))

\* datetime.strptime(receipt["pickup_date"], "%A, %B %d, %Y"), the streamed
\* days counted from 1 December 2023
strptime(day) == DateFrom(2023, 12, day)

\* a text is the sequence of its characters' code points: "-" is 45, the
\* digits "0".."9" are 48..57
RECURSIVE Digits(_)
Digits(n) == IF n < 10 THEN <<48 + n>> ELSE Append(Digits(n \div 10), 48 + (n % 10))

\* date.strftime("%Y-%m"): the year in decimal, the month on two digits
strftime_month(date) ==
    Digits(date.year) \o <<45>> \o <<48 + (date.month \div 10), 48 + (date.month % 10)>>

\* a < b for two texts: Python compares them character by character
RECURSIVE StrLess(_, _)
StrLess(a, b) ==
    IF b = <<>> THEN FALSE
    ELSE IF a = <<>> THEN TRUE
    ELSE IF Head(a) # Head(b) THEN Head(a) < Head(b)
    ELSE StrLess(Tail(a), Tail(b))

\* monthly_data[month_key].append(receipt)
month_append(md, key, receipt) ==
    IF \E i \in DOMAIN md : md[i].month = key
    THEN [i \in DOMAIN md |->
            IF md[i].month = key THEN [md[i] EXCEPT !.receipts = Append(@, receipt)]
            ELSE md[i]]
    ELSE Append(md, [month |-> key, receipts |-> <<receipt>>])

\* StreamingService.group_by_month: a receipt whose date does not parse is
\* skipped
RECURSIVE group_by_month(_, _)
group_by_month(md, rs) ==
    IF rs = <<>> THEN md
    ELSE group_by_month(IF date_parses(Head(rs))
                        THEN month_append(md, strftime_month(strptime(Head(rs).pickup_date)),
                                          Head(rs))
                        ELSE md,
                        Tail(rs))

\* mutant: the months stay in the order their first receipt came in
months_as_grouped(md) == md

insert_month(t, x) ==
    LET k == Cardinality({i \in DOMAIN t : ~StrLess(x.month, t[i].month)})
    IN  SubSeq(t, 1, k) \o <<x>> \o SubSeq(t, k + 1, Len(t))

\* sorted(monthly_data.keys()), each key with its receipts
RECURSIVE sorted_months(_)
sorted_months(md) ==
    IF md = <<>> THEN <<>>
    ELSE insert_month(sorted_months(SubSeq(md, 1, Len(md) - 1)), md[Len(md)])

\* datetime.strptime(f"{month}-01", "%Y-%m-%d"): %Y takes exactly four
\* digits, %m two; None stands for the ValueError
parse_month(key) ==
    IF Len(key) = 7 /\ key[5] = 45 /\ \A i \in {1, 2, 3, 4, 6, 7} : key[i] \in 48..57
    THEN The({ IF mo \in 1..12
               THEN [year |-> (key[1] - 48) * 1000 + (key[2] - 48) * 100
                                + (key[3] - 48) * 10 + (key[4] - 48),
                     month |-> mo]
               ELSE None :
               mo \in {(key[6] - 48) * 10 + (key[7] - 48)} })
    ELSE None

\* the month data of the idx-th of total months (the sums of money left out);
\* percentage in tenths
month_data_of(entry, idx, total) ==
    [ month         |-> entry.month,
      month_display |-> parse_month(entry.month),
      receipts      |-> entry.receipts,
      receipt_count |-> Len(entry.receipts),
      total_items   |-> SumSeq([i \in DOMAIN entry.receipts |->
                                  Len(get(entry.receipts[i], "items", <<>>))]),
      progress      |-> [ current |-> idx, total |-> total,
                          percentage |-> Round(idx * 1000, total) ] ]

\* mutant: an exception of the callback leaves the generator
callback_propagates(outcome) == IF outcome = "raises" THEN "stream_failed" ELSE "stream_yield"

\* try: await callback(month_data) except Exception: print; where the
\* generator goes on
after_callback(outcome) == "stream_yield"

\* -------------------------------------------------- the purchase simulator
CATEGORY_FREQUENCIES ==
    [ produce   |-> [min |-> 5,  max |-> 10, variance |-> 2],
      protein   |-> [min |-> 7,  max |-> 14, variance |-> 3],
      dairy     |-> [min |-> 5,  max |-> 10, variance |-> 2],
      grains    |-> [min |-> 14, max |-> 30, variance |-> 5],
      snacks    |-> [min |-> 10, max |-> 21, variance |-> 4],
      beverages |-> [min |-> 7,  max |-> 14, variance |-> 3],
      pantry    |-> [min |-> 30, max |-> 60, variance |-> 10] ]

\* shopping_frequency and variance of each archetype
ARCHETYPE_PATTERNS ==
    [ health_conscious    |-> [shopping_frequency |-> 8,  variance |-> 2],
      busy_family         |-> [shopping_frequency |-> 12, variance |-> 3],
      budget_conscious    |-> [shopping_frequency |-> 12, variance |-> 2],
      single_professional |-> [shopping_frequency |-> 6,  variance |-> 2] ]

\* random.randint(a, b): an integer from a to b
randint(a, b) == (a..b) \cap Draws(a, b)

\* the keys of item_frequencies in the order a dict keeps them: each name at
\* the place of its first occurrence in seed_items
RECURSIVE dict_keys(_)
dict_keys(seed_items) ==
    IF seed_items = <<>> THEN <<>>
    ELSE The({ IF \E k \in DOMAIN front : front[k] = seed_items[Len(seed_items)].name
               THEN front
               ELSE Append(front, seed_items[Len(seed_items)].name) :
               front \in {dict_keys(SubSeq(seed_items, 1, Len(seed_items) - 1))} })

\* the tables item_frequencies can be after the first loop: for each name the
\* entry of its last occurrence in seed_items, avg_days drawn from min..max
item_frequency_tables(seed_items) ==
    { table \in [ {seed_items[k].name : k \in DOMAIN seed_items} ->
                     [avg_days : 0..60, variance : 0..10, last_purchased : {None}] ] :
        \A k \in DOMAIN seed_items :
           (\A j \in DOMAIN seed_items : j > k => seed_items[j].name # seed_items[k].name)
              => /\ table[seed_items[k].name].variance
                      = CATEGORY_FREQUENCIES[seed_items[k].category].variance
                 /\ table[seed_items[k].name].avg_days
                      \in randint(CATEGORY_FREQUENCIES[seed_items[k].category].min,
                                  CATEGORY_FREQUENCIES[seed_items[k].category].max) }

\* mutant: an item may be bought again on any shopping day
should_buy_any_day(freq_data, current) ==
    {TRUE, FALSE}

\* the values should_buy can take for an item on the shopping day current_date:
\* random.random() < 0.7 at the first purchase; later False before
\* avg_days - variance days have passed, and after that random.random() < p
\* with 0.5 <= p <= 0.95
should_buy(freq_data, current) ==
    IF freq_data.last_purchased = None THEN {TRUE, FALSE}
    ELSE IF current - freq_data.last_purchased.day
               >= freq_data.avg_days - freq_data.variance
    THEN {TRUE, FALSE}
    ELSE {FALSE}

\* receipt_items: the names bought, in the order of the dict
RECURSIVE receipt_items_of(_, _)
receipt_items_of(keys, buys) ==
    IF keys = <<>> THEN <<>>
    ELSE IF buys[Head(keys)] THEN <<Head(keys)>> \o receipt_items_of(Tail(keys), buys)
    ELSE receipt_items_of(Tail(keys), buys)

\* f"SIM{receipt_counter:06d}": at least six digits, zero-padded
order_number(receipt_counter) ==
    <<83, 73, 77>>
      \o [k \in 1..(6 - Min(6, Len(Digits(receipt_counter)))) |-> 48]
      \o Digits(receipt_counter)

\* current_date.strftime("%A, %B %d, %Y"): the calendar day of a shopping
\* date, the days counted from the start date, taken as 1 December 2023
strftime_day(current) == DateFrom(2023, 12, current)

\* timedelta(days=max(1, days_to_next))
days_to_next(pattern, draw) == Max(1, pattern.shopping_frequency + draw)

\* ------------------------------------------------------ the data pipeline
\* embeddings_data[i:i + batch_size]
batch_at(embeddings_data, i, batch_size) ==
    SubSeq(embeddings_data, i + 1, Min(i + batch_size, Len(embeddings_data)))

\* mutant: a batch whose insert raises is not counted
count_batch_unless_raised(counters, outcome, batch) ==
    IF outcome = "true"
    THEN [counters EXCEPT !.total_inserted = @ + Len(batch)]
    ELSE IF outcome = "false"
    THEN [counters EXCEPT !.failed = @ + Len(batch)]
    ELSE counters

\* the body of the batch loop of process_receipts: total_inserted and failed
\* after db_client.insert(batch) returned True or False or raised
count_batch(counters, outcome, batch) ==
    IF outcome = "true"
    THEN [counters EXCEPT !.total_inserted = @ + Len(batch)]
    ELSE [counters EXCEPT !.failed = @ + Len(batch)]

\* ------------------------------------------------- the WebSocket endpoint
\* mutant: on WebSocketDisconnect the handler returns at once
on_exception_return(outcome) ==
    IF outcome = "disconnect" THEN "ws_ended" ELSE "ws_send_error"

\* websocket_stream, where an exception raised in the try block goes: to
\* except WebSocketDisconnect (which prints, the finally block follows) or to
\* except Exception (which sends the "error" message)
on_exception(outcome) ==
    IF outcome = "disconnect" THEN "ws_finally" ELSE "ws_send_error"

\* where the handler goes after an awaited call of the try block
after_await(outcome, next) == IF outcome = "ok" THEN next ELSE on_exception(outcome)

\* ----------------------------------------------------------------- state
VARIABLES
    dates, current_date, stats,          \* one call of calculate_item_statistics
    dataset,                             \* customer id -> that customer's receipts
    min_purchases, min_confidence, now,  \* thresholds and the wall clock
    pc,
    frequency_results, reference_date, recommendations,   \* process_seed_purchase
    steps, metadata, services,
    acf_reference, report,                                \* analyze_customer_frequency
    interval_input,                      \* an average interval, in tenths of a day
    printed_suggestion, enriched, ai_suggestion,  \* what each place makes of it
    core_results, llama_outcomes,        \* step 4's list, what each Llama call did
    sm_items, sm_top_k,                  \* one call of get_recommendations
    sm_outcome, sm_returned,
    st_receipts, st_callback,            \* one run of stream_monthly_data
    st_months, st_idx, st_month_data,
    st_yielded, st_log,
    ws_accepted, ws_sent, ws_closed,     \* one connection to /ws/stream
    ws_months, ws_streamed, ws_returned,
    dp_embeddings, dp_batch_size, dp_i,  \* one call of process_receipts
    dp_counters, dp_outcomes, dp_result,
    seed_items, archetype, sim_months,   \* one call of generate_purchase_history
    item_frequencies, sim_date, receipt_counter, receipts

vars == <<dates, current_date, stats, dataset, min_purchases, min_confidence, now, pc,
          frequency_results, reference_date, recommendations, steps, metadata, services,
          acf_reference, report,
          interval_input, printed_suggestion, enriched, ai_suggestion,
          core_results, llama_outcomes,
          sm_items, sm_top_k, sm_outcome, sm_returned,
          st_receipts, st_callback, st_months, st_idx, st_month_data, st_yielded, st_log,
          ws_accepted, ws_sent, ws_closed, ws_months, ws_streamed, ws_returned,
          dp_embeddings, dp_batch_size, dp_i, dp_counters, dp_outcomes, dp_result,
          seed_items, archetype, sim_months, item_frequencies, sim_date,
          receipt_counter, receipts>>

engine_vars == <<dates, current_date, stats>>
input_vars  == <<min_purchases, min_confidence, now>>
orch_vars   == <<frequency_results, reference_date, recommendations, steps, metadata,
                 services>>
acf_vars    == <<acf_reference, report>>
cadence_vars == <<interval_input, printed_suggestion, enriched, ai_suggestion>>
llama_vars  == <<core_results, llama_outcomes>>
\* the variables of the services around the core
sagemaker_vars == <<sm_items, sm_top_k, sm_outcome, sm_returned>>
stream_vars == <<st_receipts, st_callback, st_months, st_idx, st_month_data, st_yielded,
                 st_log>>
socket_vars == <<ws_accepted, ws_sent, ws_closed, ws_months, ws_streamed, ws_returned>>
pipeline_vars == <<dp_embeddings, dp_batch_size, dp_i, dp_counters, dp_outcomes, dp_result>>
simulator_vars == <<seed_items, archetype, sim_months, item_frequencies, sim_date,
                    receipt_counter, receipts>>
aux_vars    == <<llama_vars, sagemaker_vars, stream_vars, socket_vars, pipeline_vars,
                 simulator_vars>>

CustomerOrder == <<"c1", "c2">>
CustomerIds == {"c1", "c2"}
\* the customer process_seed_purchase is called for
SeedCustomer == "c1"

NoOutput ==
    /\ frequency_results = <<>>
    /\ reference_date = 0
    /\ recommendations = <<>>
    /\ steps = NotRun
    /\ metadata = NotRun
    /\ services = NotRun
    /\ acf_reference = 0
    /\ report = <<>>

NoCadence ==
    /\ interval_input = 0
    /\ printed_suggestion = NotRun
    /\ enriched = NotRun
    /\ ai_suggestion = NotRun

NoLlama ==
    /\ core_results = <<>>
    /\ llama_outcomes = <<>>

NoSagemaker ==
    /\ sm_items = <<>>
    /\ sm_top_k = 0
    /\ sm_outcome = NotRun
    /\ sm_returned = NotRun

NoStream ==
    /\ st_receipts = <<>>
    /\ st_callback = FALSE
    /\ st_months = <<>>
    /\ st_idx = 0
    /\ st_month_data = NotRun
    /\ st_yielded = <<>>
    /\ st_log = <<>>

NoSocket ==
    /\ ws_accepted = FALSE
    /\ ws_sent = <<>>
    /\ ws_closed = 0
    /\ ws_months = 0
    /\ ws_streamed = 0
    /\ ws_returned = FALSE

NoPipeline ==
    /\ dp_embeddings = <<>>
    /\ dp_batch_size = 0
    /\ dp_i = 0
    /\ dp_counters = NotRun
    /\ dp_outcomes = <<>>
    /\ dp_result = NotRun

NoSimulator ==
    /\ seed_items = <<>>
    /\ archetype = "health_conscious"
    /\ sim_months = 0
    /\ item_frequencies = NotRun
    /\ sim_date = 0
    /\ receipt_counter = 0
    /\ receipts = <<>>

NoAux ==
    /\ NoSimulator
    /\ NoLlama
    /\ NoSagemaker
    /\ NoStream
    /\ NoSocket
    /\ NoPipeline

NoDataset ==
    /\ dataset = [c \in CustomerIds |-> <<>>]
    /\ min_purchases = FREQ_MIN_PURCHASES
    /\ min_confidence = FREQ_MIN_CONFIDENCE
    /\ now = 0

\* ------------------------------------------------------------ the engine
\* the purchase days of a list of gaps, first purchase on day 0
RECURSIVE FromGaps(_)
FromGaps(g) ==
    IF g = <<>> THEN <<0>>
    ELSE LET p == FromGaps(SubSeq(g, 1, Len(g) - 1))
         IN  Append(p, p[Len(p)] + g[Len(g)])

DateLists ==
    {<<>>} \cup {FromGaps(g) : g \in UNION {[1..n -> Gaps] : n \in 0..(MaxLen - 1)}}
           \cup {FromGaps(g) : g \in TieGaps}

LastPurchase(ds) == IF ds = <<>> THEN 0 ELSE max(ds)

Inversions(ds) ==
    Cardinality({p \in (1..Len(ds)) \X (1..Len(ds)) : p[1] < p[2] /\ ds[p[1]] > ds[p[2]]})

InitEngine ==
    /\ dates \in DateLists
    /\ current_date \in {LastPurchase(dates) + o : o \in RefOffsets}
    /\ stats = NotRun
    /\ pc = "engine"
    /\ NoDataset
    /\ NoOutput
    /\ NoCadence
    /\ NoAux

\* stats = calculate_item_statistics(dates, current_date)
Calculate ==
    /\ pc = "engine"
    /\ stats = NotRun
    /\ stats' = calculate_item_statistics(dates, current_date)
    /\ UNCHANGED <<dates, current_date, dataset, input_vars, aux_vars, pc, orch_vars, acf_vars, cadence_vars>>

\* the caller hands over the same purchases in another order
Reorder ==
    /\ pc = "engine"
    /\ stats # NotRun
    /\ Inversions(dates) < MaxInversions
    /\ \E i \in 1..(Len(dates) - 1) :
          /\ dates[i] < dates[i + 1]
          /\ dates' = [dates EXCEPT ![i] = dates[i + 1], ![i + 1] = dates[i]]
    /\ stats' = calculate_item_statistics(dates', current_date)
    /\ UNCHANGED <<current_date, dataset, input_vars, aux_vars, pc, orch_vars, acf_vars, cadence_vars>>

\* the caller asks again with a later reference date
Later ==
    /\ pc = "engine"
    /\ stats # NotRun
    /\ \E r \in {LastPurchase(dates) + o : o \in RefOffsets} :
          r > current_date /\ current_date' = r
    /\ stats' = calculate_item_statistics(dates, current_date')
    /\ UNCHANGED <<dates, dataset, input_vars, aux_vars, pc, orch_vars, acf_vars, cadence_vars>>

NextEngine == Calculate \/ Reorder \/ Later

SpecEngine == InitEngine /\ [][NextEngine]_vars

\* ------------------------------------------------- the two analysis runs
NumReceipts == Len(dataset["c1"]) + Len(dataset["c2"])

\* the day of a customer's next receipt: gap days after the last one
NextDay(c, gap) ==
    IF dataset[c] = <<>> THEN gap ELSE dataset[c][Len(dataset[c])].pickup_date + gap

Init ==
    /\ dates = <<>> /\ current_date = 0 /\ stats = NotRun
    /\ dataset = [c \in CustomerIds |-> <<>>]
    /\ \E t \in Thresholds : min_purchases = t[1] /\ min_confidence = t[2]
    /\ now \in WallClock
    /\ pc = "ingest"
    /\ NoOutput
    /\ NoCadence
    /\ NoAux

\* ingestion hands over one more receipt of a customer
AddReceipt ==
    /\ pc = "ingest"
    /\ NumReceipts < MaxReceipts
    /\ \E c \in CustomerIds, gap \in ReceiptGaps : \E b \in Baskets[c] :
          dataset' = [dataset EXCEPT ![c] =
                         Append(@, [pickup_date |-> NextDay(c, gap), items |-> b])]
    /\ UNCHANGED <<engine_vars, input_vars, aux_vars, pc, orch_vars, acf_vars, cadence_vars>>

\* process_seed_purchase, steps 4 and 5 (Llama and Sagemaker disabled), on
\* the seed customer's receipts; r is what the call returns
ProcessSeedPurchase ==
    /\ pc = "ingest"
    /\ \E r \in {process_seed_purchase(dataset[SeedCustomer], now, min_purchases,
                                        min_confidence, FALSE, FALSE, "unused")} :
           /\ frequency_results' = r.frequency_results
           /\ reference_date' = r.reference_date
           /\ recommendations' = r.recommendations
           /\ steps' = r.steps
           /\ metadata' = r.metadata
    /\ services' = [enable_llama |-> FALSE, enable_sagemaker |-> FALSE]
    /\ pc' = "processed"
    /\ UNCHANGED <<engine_vars, dataset, input_vars, aux_vars, acf_vars, cadence_vars>>

\* process_seed_purchase with Llama, Sagemaker or both enabled; the Llama
\* endpoint is unreachable, the Sagemaker endpoint fails or answers without
\* recommendations
ProcessSeedPurchaseWithServices ==
    /\ pc = "ingest"
    /\ \E enable_llama \in BOOLEAN, enable_sagemaker \in BOOLEAN :
          /\ enable_llama \/ enable_sagemaker
          /\ \E endpoint \in (IF enable_sagemaker THEN EndpointOutcomes ELSE {"unused"}) :
                \E r \in {process_seed_purchase(dataset[SeedCustomer], now, min_purchases,
                                                 min_confidence, enable_llama,
                                                 enable_sagemaker, endpoint)} :
                    /\ frequency_results' = r.frequency_results
                    /\ reference_date' = r.reference_date
                    /\ recommendations' = r.recommendations
                    /\ steps' = r.steps
                    /\ metadata' = r.metadata
                    /\ services' = [enable_llama |-> enable_llama,
                                    enable_sagemaker |-> enable_sagemaker,
                                    endpoint |-> endpoint]
    /\ pc' = "served"
    /\ UNCHANGED <<engine_vars, dataset, input_vars, aux_vars, acf_vars, cadence_vars>>

\* analyze_customer_frequency on the whole dataset
AnalyzeCustomerFrequency ==
    /\ pc = "ingest"
    /\ acf_reference' = acf_reference_date(dataset, CustomerOrder, now)
    /\ report' = acf_report(dataset, CustomerOrder, acf_reference', min_purchases,
                            min_confidence, 0, limit_customers)
    /\ pc' = "reported"
    /\ UNCHANGED <<engine_vars, dataset, input_vars, aux_vars, orch_vars, cadence_vars>>

Next ==
    \/ AddReceipt
    \/ ProcessSeedPurchase
    \/ ProcessSeedPurchaseWithServices
    \/ AnalyzeCustomerFrequency

Spec == Init /\ [][Next]_vars

\* ----------------------------------------------------------- raw receipts
\* ingestion hands over one more receipt of the seed customer as it is read:
\* it can lack a key, carry a date that does not parse or a nameless item
AddRawReceipt ==
    /\ pc = "ingest"
    /\ NumReceipts < MaxReceipts
    /\ \E r \in RawReceipts(RawGap * Len(dataset[SeedCustomer])) :
          dataset' = [dataset EXCEPT ![SeedCustomer] = Append(@, r)]
    /\ UNCHANGED <<engine_vars, input_vars, aux_vars, pc, orch_vars, acf_vars, cadence_vars>>

NextRaw == AddRawReceipt \/ ProcessSeedPurchase \/ AnalyzeCustomerFrequency

SpecRaw == Init /\ [][NextRaw]_vars

\* ------------------------------------------------- the Llama enhancement
\* process_seed_purchase with Llama enabled and Sagemaker disabled; each of
\* the items handed to the Llama endpoint is answered, falls back or raises
ProcessSeedPurchaseWithLlama ==
    /\ pc = "ingest"
    /\ \E r \in {run_frequency_analysis(dataset[SeedCustomer], now, min_purchases,
                                         min_confidence)} :
          \E outcomes \in [1..Min(5, Len(r.results)) -> LlamaOutcomes] :
             \E fr \in {llama_step(r.results, outcomes)},
                s \in {seed_purchase_steps(r, min_confidence, TRUE, FALSE, "unused")} :
                /\ core_results' = r.results
                /\ llama_outcomes' = outcomes
                /\ frequency_results' = fr
                /\ reference_date' = r.reference_date
                /\ recommendations' = fallback_recommendations(fr)
                /\ steps' = s.steps
                /\ metadata' = s.metadata
    /\ services' = [enable_llama |-> TRUE, enable_sagemaker |-> FALSE]
    /\ pc' = "enhanced"
    /\ UNCHANGED <<engine_vars, dataset, input_vars, acf_vars, cadence_vars, sagemaker_vars,
                   stream_vars, socket_vars, pipeline_vars, simulator_vars>>

NextLlama == AddRawReceipt \/ ProcessSeedPurchaseWithLlama

SpecLlama == Init /\ [][NextLlama]_vars

\* ------------------------------------------------- the Sagemaker client
\* the frequent items a caller can hand over: each with a name and, unless
\* the key is missing, a confidence_score
FrequentItem(k, score) ==
    IF score = NoScore THEN [name |-> <<"item", k>>]
    ELSE [name |-> <<"item", k>>, confidence_score |-> score]

FrequentItemLists ==
    UNION {{[k \in 1..n |-> FrequentItem(k, f[k])] :
               f \in [1..n -> ItemScores]} : n \in 0..MaxItems}

\* what the runtime can do: raise, answer without recommendations, or answer
\* n recommendations (the model behind the endpoint decides how many)
RuntimeOutcomes ==
    {[raises |-> TRUE], [body |-> [model |-> "none"]]}
    \cup {[body |-> [recommendations |->
                        [k \in 1..n |-> [name |-> <<"rec", k>>,
                                         recommendation_score |-> 1000 - k]]]] :
            n \in 0..MaxAnswered}

InitSagemaker ==
    /\ dates = <<>> /\ current_date = 0 /\ stats = NotRun
    /\ NoDataset
    /\ NoOutput
    /\ NoCadence
    /\ NoLlama
    /\ NoStream
    /\ NoSocket
    /\ NoPipeline
    /\ NoSimulator
    /\ pc = "sagemaker"
    /\ sm_items \in FrequentItemLists
    /\ sm_top_k \in 1..MaxTopK
    /\ sm_outcome = NotRun
    /\ sm_returned = NotRun

\* get_recommendations(customer_id, frequent_items, top_k)
GetRecommendations ==
    /\ pc = "sagemaker"
    /\ \E outcome \in RuntimeOutcomes :
          /\ sm_outcome' = outcome
          /\ sm_returned' = get_recommendations(sm_items, sm_top_k, outcome)
    /\ pc' = "recommended"
    /\ UNCHANGED <<engine_vars, dataset, input_vars, orch_vars, acf_vars, cadence_vars,
                   llama_vars, stream_vars, socket_vars, pipeline_vars, simulator_vars,
                   sm_items, sm_top_k>>

NextSagemaker == GetRecommendations

SpecSagemaker == InitSagemaker /\ [][NextSagemaker]_vars

\* ------------------------------------------------ the streaming service
\* the receipts handed to the generator: a pickup day, a pickup_date that
\* does not parse, or none at all
StreamedReceipts ==
    {[pickup_date |-> d, items |-> <<"a">>] : d \in StreamDays \cup {BadDate}}
    \cup {[items |-> <<"a", "b">>]}

core_vars == <<engine_vars, dataset, input_vars, orch_vars, acf_vars, cadence_vars>>

InitStream ==
    /\ dates = <<>> /\ current_date = 0 /\ stats = NotRun
    /\ NoDataset
    /\ NoOutput
    /\ NoCadence
    /\ NoLlama
    /\ NoSagemaker
    /\ NoSocket
    /\ NoPipeline
    /\ NoSimulator
    /\ pc = "stream_new"
    /\ st_receipts \in UNION {[1..n -> StreamedReceipts] : n \in 0..MaxStreamed}
    /\ st_callback \in BOOLEAN
    /\ st_months = <<>>
    /\ st_idx = 0
    /\ st_month_data = NotRun
    /\ st_yielded = <<>>
    /\ st_log = <<>>

\* the loop enters its idx-th round: the month data is built (strptime of
\* the month key can raise), then the callback, if there is one, is awaited
EnterRound(months, idx) ==
    IF idx > Len(months)
    THEN /\ pc' = "stream_done"
         /\ UNCHANGED <<st_idx, st_month_data>>
    ELSE /\ st_idx' = idx
         /\ st_month_data' = month_data_of(months[idx], idx, Len(months))
         /\ pc' = IF st_month_data'.month_display = None THEN "stream_failed"
                  ELSE IF st_callback THEN "stream_callback"
                  ELSE "stream_yield"

\* the consumer asks for the first month: the receipts are grouped, the
\* months sorted, the first round entered
StreamStart ==
    /\ pc = "stream_new"
    /\ st_months' = sorted_months(group_by_month(<<>>, st_receipts))
    /\ EnterRound(st_months', 1)
    /\ UNCHANGED <<core_vars, llama_vars, sagemaker_vars, socket_vars, pipeline_vars,
                   simulator_vars, st_receipts, st_callback,
                   st_yielded, st_log>>

\* await callback(month_data), which returns or raises
StreamCallback ==
    /\ pc = "stream_callback"
    /\ \E outcome \in CallbackOutcomes :
          /\ st_log' = Append(st_log, [event |-> "callback", idx |-> st_idx,
                                       outcome |-> outcome])
          /\ pc' = after_callback(outcome)
    /\ UNCHANGED <<core_vars, llama_vars, sagemaker_vars, socket_vars, pipeline_vars,
                   simulator_vars, st_receipts, st_callback,
                   st_months, st_idx, st_month_data, st_yielded>>

\* yield month_data
StreamYield ==
    /\ pc = "stream_yield"
    /\ st_yielded' = Append(st_yielded, st_month_data)
    /\ st_log' = Append(st_log, [event |-> "yield", idx |-> st_idx, outcome |-> "yielded"])
    /\ pc' = "stream_suspended"
    /\ UNCHANGED <<core_vars, llama_vars, sagemaker_vars, socket_vars, pipeline_vars,
                   simulator_vars, st_receipts, st_callback,
                   st_months, st_idx, st_month_data>>

\* the consumer asks for the next month: the generator sleeps unless this
\* was the last month, and enters the next round or ends
StreamResume ==
    /\ pc = "stream_suspended"
    /\ EnterRound(st_months, st_idx + 1)
    /\ UNCHANGED <<core_vars, llama_vars, sagemaker_vars, socket_vars, pipeline_vars,
                   simulator_vars, st_receipts, st_callback,
                   st_months, st_yielded, st_log>>

NextStream == StreamStart \/ StreamCallback \/ StreamYield \/ StreamResume

SpecStream == InitStream /\ [][NextStream]_vars

\* ------------------------------------------------- the WebSocket endpoint
other_vars == <<core_vars, llama_vars, sagemaker_vars, stream_vars, pipeline_vars,
                simulator_vars>>

InitSocket ==
    /\ dates = <<>> /\ current_date = 0 /\ stats = NotRun
    /\ NoDataset
    /\ NoOutput
    /\ NoCadence
    /\ NoLlama
    /\ NoSagemaker
    /\ NoStream
    /\ NoPipeline
    /\ NoSimulator
    /\ pc = "ws_connect"
    /\ ws_accepted = FALSE
    /\ ws_sent = <<>>
    /\ ws_closed = 0
    /\ ws_months \in 0..MaxMonths
    /\ ws_streamed = 0
    /\ ws_returned = FALSE

\* await websocket.accept(), before the try block: when it raises the
\* handler is left
Accept ==
    /\ pc = "ws_connect"
    /\ \E outcome \in SocketOutcomes :
          /\ ws_accepted' = (outcome = "ok")
          /\ pc' = IF outcome = "ok" THEN "ws_receive" ELSE "ws_ended"
    /\ UNCHANGED <<other_vars, ws_sent, ws_closed, ws_months, ws_streamed, ws_returned>>

\* data = await websocket.receive_json()
ReceiveSeed ==
    /\ pc = "ws_receive"
    /\ \E outcome \in SocketOutcomes : pc' = after_await(outcome, "ws_started")
    /\ UNCHANGED <<other_vars, socket_vars>>

\* await websocket.send_json({"type": "started", ...})
SendStarted ==
    /\ pc = "ws_started"
    /\ \E outcome \in SocketOutcomes :
          /\ ws_sent' = IF outcome = "ok" THEN Append(ws_sent, "started") ELSE ws_sent
          /\ pc' = after_await(outcome, "ws_simulate")
    /\ UNCHANGED <<other_vars, ws_accepted, ws_closed, ws_months, ws_streamed, ws_returned>>

\* process_seed_purchase up to the stream: the simulation, which raises for
\* an unknown archetype
Simulate ==
    /\ pc = "ws_simulate"
    /\ \E outcome \in StageOutcomes :
          pc' = after_await(outcome, IF ws_months = 0 THEN "ws_rest" ELSE "ws_stream")
    /\ UNCHANGED <<other_vars, socket_vars>>

\* one round of stream_monthly_data with stream_callback as callback: the
\* callback sends "monthly_update"; the generator catches what it raises
StreamMonth ==
    /\ pc = "ws_stream"
    /\ \E outcome \in SocketOutcomes :
          /\ ws_sent' = IF outcome = "ok" THEN Append(ws_sent, "monthly_update")
                        ELSE ws_sent
          /\ ws_streamed' = ws_streamed + 1
          /\ pc' = IF after_callback(IF outcome = "ok" THEN "returns" ELSE "raises")
                        # "stream_yield"
                   THEN on_exception(outcome)
                   ELSE IF ws_streamed' = ws_months THEN "ws_rest" ELSE "ws_stream"
    /\ UNCHANGED <<other_vars, ws_accepted, ws_closed, ws_months, ws_returned>>

\* the stages of process_seed_purchase after the stream (vector DB,
\* frequency analysis, recommendations), then its return
RestOfPipeline ==
    /\ pc = "ws_rest"
    /\ \E outcome \in StageOutcomes :
          /\ ws_returned' = (outcome = "ok")
          /\ pc' = after_await(outcome, "ws_completed")
    /\ UNCHANGED <<other_vars, ws_accepted, ws_sent, ws_closed, ws_months, ws_streamed>>

\* await websocket.send_json({"type": "completed", ...}), the last statement
\* of the try block
SendCompleted ==
    /\ pc = "ws_completed"
    /\ \E outcome \in SocketOutcomes :
          /\ ws_sent' = IF outcome = "ok" THEN Append(ws_sent, "completed") ELSE ws_sent
          /\ pc' = after_await(outcome, "ws_finally")
    /\ UNCHANGED <<other_vars, ws_accepted, ws_closed, ws_months, ws_streamed, ws_returned>>

\* except Exception: await websocket.send_json({"type": "error", ...});
\* whether or not the send raises, the finally block follows
SendError ==
    /\ pc = "ws_send_error"
    /\ \E outcome \in SocketOutcomes :
          ws_sent' = IF outcome = "ok" THEN Append(ws_sent, "error") ELSE ws_sent
    /\ pc' = "ws_finally"
    /\ UNCHANGED <<other_vars, ws_accepted, ws_closed, ws_months, ws_streamed, ws_returned>>

\* finally: await websocket.close()
Close ==
    /\ pc = "ws_finally"
    /\ ws_closed' = ws_closed + 1
    /\ pc' = "ws_ended"
    /\ UNCHANGED <<other_vars, ws_accepted, ws_sent, ws_months, ws_streamed, ws_returned>>

NextSocket ==
    \/ Accept \/ ReceiveSeed \/ SendStarted \/ Simulate \/ StreamMonth
    \/ RestOfPipeline \/ SendCompleted \/ SendError \/ Close

SpecSocket == InitSocket /\ [][NextSocket]_vars

\* ------------------------------------------------------ the data pipeline
InitPipeline ==
    /\ dates = <<>> /\ current_date = 0 /\ stats = NotRun
    /\ NoDataset
    /\ NoOutput
    /\ NoCadence
    /\ NoLlama
    /\ NoSagemaker
    /\ NoStream
    /\ NoSocket
    /\ NoSimulator
    /\ pc = "dp_loop"
    /\ dp_embeddings \in {[k \in 1..n |-> k] : n \in 0..MaxEmbeddings}
    /\ dp_batch_size \in 1..MaxBatchSize
    /\ dp_i = 0
    /\ dp_counters = [total_inserted |-> 0, failed |-> 0]
    /\ dp_outcomes = <<>>
    /\ dp_result = NotRun

\* one round of the batch loop: db_client.insert(batch) returns or raises
InsertBatch ==
    /\ pc = "dp_loop"
    /\ dp_i < Len(dp_embeddings)
    /\ \E outcome \in InsertOutcomes :
          /\ dp_counters' = count_batch(dp_counters, outcome,
                                        batch_at(dp_embeddings, dp_i, dp_batch_size))
          /\ dp_outcomes' = Append(dp_outcomes, outcome)
    /\ dp_i' = dp_i + dp_batch_size
    /\ UNCHANGED <<core_vars, llama_vars, sagemaker_vars, stream_vars, socket_vars,
                   simulator_vars, pc, dp_embeddings, dp_batch_size, dp_result>>

\* the range is exhausted: process_receipts returns its statistics
ReturnStatistics ==
    /\ pc = "dp_loop"
    /\ dp_i >= Len(dp_embeddings)
    /\ dp_result' = [ total_items_processed |-> Len(dp_embeddings),
                      successfully_inserted |-> dp_counters.total_inserted,
                      failed                |-> dp_counters.failed ]
    /\ pc' = "dp_returned"
    /\ UNCHANGED <<core_vars, llama_vars, sagemaker_vars, stream_vars, socket_vars,
                   simulator_vars, dp_embeddings, dp_batch_size, dp_i, dp_counters, dp_outcomes>>

NextPipeline == InsertBatch \/ ReturnStatistics

SpecPipeline == InitPipeline /\ [][NextPipeline]_vars

\* -------------------------------------------------- the purchase simulator
InitSimulator ==
    /\ dates = <<>> /\ current_date = 0 /\ stats = NotRun
    /\ NoDataset
    /\ NoOutput
    /\ NoCadence
    /\ NoLlama
    /\ NoSagemaker
    /\ NoStream
    /\ NoSocket
    /\ NoPipeline
    /\ pc = "sim_call"
    /\ seed_items \in SeedLists
    /\ archetype \in DOMAIN ARCHETYPE_PATTERNS
    /\ sim_months \in SimMonths
    /\ item_frequencies = NotRun
    /\ sim_date = 0
    /\ receipt_counter = 0
    /\ receipts = <<>>

\* the frequencies of the seed items are drawn; the shopping date is the start
\* date, months * 30 days back, and counted from it
CategorizeSeedItems ==
    /\ pc = "sim_call"
    /\ item_frequencies' \in item_frequency_tables(seed_items)
    /\ sim_date' = 0
    /\ receipt_counter' = 1
    /\ receipts' = <<>>
    /\ pc' = "sim_loop"
    /\ UNCHANGED <<core_vars, llama_vars, sagemaker_vars, stream_vars, socket_vars,
                   pipeline_vars, seed_items, archetype, sim_months>>

\* one round of the while loop: current_date <= datetime.now(), that is at
\* most months * 30 days after the start date
ShoppingTrip ==
    /\ pc = "sim_loop"
    /\ sim_date <= sim_months * 30
    /\ \E buys \in [DOMAIN item_frequencies -> BOOLEAN] :
          /\ \A name \in DOMAIN item_frequencies :
                buys[name] \in should_buy(item_frequencies[name], sim_date)
          /\ item_frequencies' =
                [name \in DOMAIN item_frequencies |->
                    IF buys[name]
                    THEN [item_frequencies[name] EXCEPT !.last_purchased = [day |-> sim_date]]
                    ELSE item_frequencies[name]]
          /\ \E receipt_items \in {receipt_items_of(dict_keys(seed_items), buys)} :
                IF receipt_items # <<>>
                THEN /\ receipts' = Append(receipts,
                            [ order_number |-> order_number(receipt_counter),
                              pickup_date  |-> strftime_day(sim_date),
                              items        |-> receipt_items ])
                     /\ receipt_counter' = receipt_counter + 1
                ELSE UNCHANGED <<receipts, receipt_counter>>
    /\ \E draw \in randint(0 - ARCHETYPE_PATTERNS[archetype].variance,
                            ARCHETYPE_PATTERNS[archetype].variance) :
          sim_date' = sim_date + days_to_next(ARCHETYPE_PATTERNS[archetype], draw)
    /\ UNCHANGED <<core_vars, llama_vars, sagemaker_vars, stream_vars, socket_vars,
                   pipeline_vars, pc, seed_items, archetype, sim_months>>

\* the shopping date is past now: the receipts are returned
ReturnReceipts ==
    /\ pc = "sim_loop"
    /\ sim_date > sim_months * 30
    /\ pc' = "sim_returned"
    /\ UNCHANGED <<core_vars, llama_vars, sagemaker_vars, stream_vars, socket_vars,
                   pipeline_vars, simulator_vars>>

NextSimulator == CategorizeSeedItems \/ ShoppingTrip \/ ReturnReceipts

\* the call runs on: a step that can be taken is taken
SpecSimulator ==
    /\ InitSimulator
    /\ [][NextSimulator]_vars
    /\ WF_vars(NextSimulator)

\* ------------------------------------------- the places that name a cadence
InitCadence ==
    /\ dates = <<>> /\ current_date = 0 /\ stats = NotRun
    /\ NoDataset
    /\ NoOutput
    /\ pc = "cadence"
    /\ interval_input \in 0..MaxInterval
    /\ printed_suggestion = NotRun
    /\ enriched = NotRun
    /\ ai_suggestion = NotRun
    /\ NoAux

\* the report printer of analyze_customer_frequency on an item with this
\* average interval
PrintSuggestion ==
    /\ pc = "cadence"
    /\ printed_suggestion = NotRun
    /\ printed_suggestion' = [suggestion |-> suggestion(interval_input)]
    /\ UNCHANGED <<engine_vars, dataset, input_vars, aux_vars, pc, orch_vars, acf_vars,
                   interval_input, enriched, ai_suggestion>>

\* _enrich_recommendation on a recommendation with this avg_interval_days
Enrich ==
    /\ pc = "cadence"
    /\ enriched = NotRun
    /\ enriched' = enrich_recommendation([avg_interval_days |-> interval_input])
    /\ UNCHANGED <<engine_vars, dataset, input_vars, aux_vars, pc, orch_vars, acf_vars,
                   interval_input, printed_suggestion, ai_suggestion>>

\* suggest_subscription_frequency falling back to its heuristic
SuggestSubscriptionFrequency ==
    /\ pc = "cadence"
    /\ ai_suggestion = NotRun
    /\ ai_suggestion' = suggest_subscription_frequency(interval_input)
    /\ UNCHANGED <<engine_vars, dataset, input_vars, aux_vars, pc, orch_vars, acf_vars,
                   interval_input, printed_suggestion, enriched>>

NextCadence == PrintSuggestion \/ Enrich \/ SuggestSubscriptionFrequency

SpecCadence == InitCadence /\ [][NextCadence]_vars

\* ---------------------------------------------------------------- claims
IsStats(s) == s # NotRun /\ s # None

Occurrences(ds, v) == Cardinality({i \in DOMAIN ds : ds[i] = v})

\* the same dates, in any order
SameDates(a, b) ==
    /\ Len(a) = Len(b)
    /\ \A v \in {a[i] : i \in DOMAIN a} : Occurrences(a, v) = Occurrences(b, v)

MaxOfSet(S) == CHOOSE d \in S : \A e \in S : e <= d

ItemNames == {"a", "b", "c", "d", "e", "f"}

\* the dates of a customer's purchases of an item, read off the receipts
RECURSIVE DatesOf(_, _)
DatesOf(rs, n) ==
    IF rs = <<>> THEN <<>>
    ELSE [i \in 1..Occurrences(Head(rs).items, n) |-> Head(rs).pickup_date]
            \o DatesOf(Tail(rs), n)

\* the dates of all purchase events of a customer
OwnDates(c) == {dataset[c][i].pickup_date : i \in {j \in DOMAIN dataset[c] : dataset[c][j].items # <<>>}}

\* the pickup dates of all receipts of the dataset
DatasetDates == UNION {{dataset[c][i].pickup_date : i \in DOMAIN dataset[c]} : c \in CustomerIds}

NamesIn(results) == {results[i].name : i \in DOMAIN results}

Qualifies(rs, n, ref) ==
    LET ds == DatesOf(rs, n)
        st == calculate_item_statistics(ds, ref)
    IN  Len(ds) >= min_purchases /\ st # None /\ st.confidence >= min_confidence

ReportOf(c) ==
    IF \E k \in DOMAIN report : report[k].customer_id = c
    THEN report[CHOOSE k \in DOMAIN report : report[k].customer_id = c].recurring_items
    ELSE <<>>

ScenarioA == SameDates(dates, <<0, 7, 14, 21>>) /\ current_date = 21
ScenarioC == SameDates(dates, <<0, 30, 35, 65, 70>>) /\ current_date >= 70

\* C1: for every list of at least 2 purchase dates and every reference date,
\* on or after the last purchase or before it, the consistency, recency,
\* purchase-count and trend-stability scores and the confidence all lie in
\* [0, 100].  (The code puts no upper clamp on recency: a reference date
\* before the last purchase breaks it.)
C1_ScoresWithinRange ==
    IsStats(stats) =>
        LET s == Scores(dates, current_date)
        IN  /\ \A v \in {s.consistency_score, s.recency_score,
                         s.purchase_count_score, s.trend_stability_score} :
                  0 <= v /\ v <= 100 * Unit
            /\ 0 <= s.confidence /\ s.confidence <= 100 * 100 * Unit
            /\ \A v \in {stats.consistency_score, stats.recency_score, stats.confidence} :
                  0 <= v /\ v <= 1000

\* C2: the confidence returned is 0.35*consistency + 0.25*recency +
\* 0.25*purchase_count_score + 0.15*trend_stability_score, up to the rounding
\* to one decimal (half a tenth).
C2_ConfidenceIsWeightedSum ==
    IsStats(stats) =>
        LET s == Scores(dates, current_date)
        IN  Abs(stats.confidence * 10 * Unit
                - (35 * s.consistency_score + 25 * s.recency_score
                   + 25 * s.purchase_count_score + 15 * s.trend_stability_score))
               <= 5 * Unit

\* four different scores: 17.5, 80.0, 50 and 75 give 49.9
C2_Witness ==
    /\ IsStats(stats)
    /\ stats.count = 5
    /\ stats.consistency_score = 175
    /\ stats.recency_score = 800
    /\ stats.trend_slope = -500
    /\ stats.confidence = 499

\* C3: the result is absent (None) exactly for the date lists of length 0
\* or 1, whatever the reference date; every longer list gets a record.
C3_AbsentIffFewerThanTwo ==
    stats # NotRun => ((stats = None) <=> (Len(dates) < 2))

C3_Witness == stats = None /\ Len(dates) = 1 /\ current_date = 150

\* C7 as stated: five purchases with gaps 30, 5, 30, 5 and any reference date
\* on or after the last purchase give a confidence below 50, and the item is
\* not recommended under the default thresholds.
C7_AlwaysBelowFifty ==
    (IsStats(stats) /\ ScenarioC) =>
        /\ stats.confidence < 500
        /\ recurring_item("x", dates, current_date,
                          FREQ_MIN_PURCHASES, FREQ_MIN_CONFIDENCE) = <<>>

\* C7, amended: for those five purchases the consistency is low (17.5), but
\* the confidence is below 50, and the item left out under the default
\* thresholds, exactly when the reference date is 30 days or more after the
\* last purchase; before that the item is recommended (54.9 on the day of
\* the last purchase).
C7_BelowFiftyFromThirtyDays ==
    (IsStats(stats) /\ ScenarioC) =>
        /\ stats.count >= FREQ_MIN_PURCHASES
        /\ stats.consistency_score = 175
        /\ (stats.confidence < 500) <=> (stats.days_since_last >= 30)
        /\ (recurring_item("x", dates, current_date,
                           FREQ_MIN_PURCHASES, FREQ_MIN_CONFIDENCE) = <<>>)
              <=> (stats.days_since_last >= 30)
        /\ (stats.days_since_last = 0 => stats.confidence = 549)

C7_Witness ==
    /\ IsStats(stats)
    /\ ScenarioC
    /\ stats.days_since_last = 30
    /\ stats.confidence = 499

\* C8: four purchases 7 days apart with the reference date on the last one:
\* average interval 7, standard deviation 0, CV 0, consistency 100, recency
\* 100, purchase-count score 40, confidence above 70, label "weekly".
C8_WeeklyScenario ==
    (stats # NotRun /\ ScenarioA) =>
        /\ stats # None
        /\ stats.count = 4
        /\ stats.avg_interval = 70
        /\ stats.std_dev = 0
        /\ stats.coefficient_of_variation = 0
        /\ stats.consistency_score = 1000
        /\ stats.recency_score = 1000
        /\ Scores(dates, current_date).purchase_count_score = 40 * Unit
        /\ stats.confidence > 700
        /\ suggestion(stats.avg_interval) = "weekly"

C8_Witness == IsStats(stats) /\ ScenarioA /\ stats.confidence = 850

\* C9: the result does not depend on the order of the dates handed over: a
\* call with a permutation of the list and the same reference date returns
\* the same record.
C9_SortInvariant ==
    [][(stats # NotRun /\ stats' # NotRun /\ SameDates(dates, dates')
            /\ current_date' = current_date)
        => stats' = stats]_vars

C9_Witness ==
    /\ IsStats(stats)
    /\ dates = <<30, 0, 35, 65, 70>>
    /\ stats.avg_interval = 175
    /\ stats.days_since_last = 0

\* C10: for a fixed list of dates, a later reference date never gives a
\* higher recency score.
C10_RecencyMonotone ==
    [][(IsStats(stats) /\ IsStats(stats') /\ dates' = dates
            /\ current_date' >= current_date)
        => stats'.recency_score <= stats.recency_score]_vars

C10_Witness ==
    /\ IsStats(stats)
    /\ stats.days_since_last = 30
    /\ stats.recency_score = 800

\* C12: with at least 3 intervals the label is "increasing frequency" iff the
\* least-squares slope of the intervals against their 0-based index is below
\* -2, "decreasing frequency" iff it is above 2, and "stable" otherwise,
\* exactly -2 and 2 included; with fewer than 3 intervals the slope is 0 and
\* the label "insufficient data".  (The code compares the slope it computed
\* in floating point: intervals 5, 0, 7, 30, 0 have the slope 2 and are
\* labelled "decreasing frequency".)
C12_TrendThresholds ==
    IsStats(stats) =>
        LET iv    == intervals(sorted(dates))
            slope == trend_slope(iv)
        IN  IF Len(iv) >= 3
            THEN /\ (stats.trend = "increasing frequency") <=> (slope < -2 * Unit)
                 /\ (stats.trend = "decreasing frequency") <=> (slope > 2 * Unit)
                 /\ (stats.trend = "stable") <=> (-2 * Unit <= slope /\ slope <= 2 * Unit)
            ELSE stats.trend = "insufficient data" /\ stats.trend_slope = 0

\* C13: purchases all on one date (average interval 0) give a record with
\* coefficient of variation 100 and consistency 0; exactly two purchases
\* (one interval) give a record with standard deviation 0.
C13_DegenerateInputs ==
    stats # NotRun =>
        /\ (Len(dates) >= 2 /\ \A i \in DOMAIN dates : dates[i] = dates[1]) =>
              /\ stats # None
              /\ stats.avg_interval = 0
              /\ stats.coefficient_of_variation = 1000
              /\ stats.consistency_score = 0
        /\ Len(dates) = 2 => (stats # None /\ stats.std_dev = 0)

C13_Witness ==
    /\ IsStats(stats)
    /\ dates = <<0, 0, 0>>
    /\ stats.coefficient_of_variation = 1000
    /\ stats.std_dev = 0
    /\ stats.trend = "insufficient data"

\* C4: before truncation an item is in a customer's results if and only if
\* it was bought at least min_purchases times, the engine returned
\* statistics for it and its confidence is at least min_confidence; it is
\* there once.  Both for _run_frequency_analysis and for the report.
C4_FilterIsExact ==
    /\ pc = "processed" =>
          /\ \A n \in ItemNames :
                (n \in NamesIn(frequency_results))
                    <=> Qualifies(dataset[SeedCustomer], n, reference_date)
          /\ Cardinality(NamesIn(frequency_results)) = Len(frequency_results)
    /\ pc = "reported" =>
          \A c \in CustomerIds :
             /\ \A n \in ItemNames :
                   (n \in NamesIn(ReportOf(c))) <=> Qualifies(dataset[c], n, acf_reference)
             /\ Cardinality(NamesIn(ReportOf(c))) = Len(ReportOf(c))

\* an item bought often enough is left out for its confidence, another kept
C4_Witness ==
    /\ pc = "processed"
    /\ min_purchases = 2
    /\ NamesIn(frequency_results) = {"b"}
    /\ Len(DatesOf(dataset[SeedCustomer], "a")) = 3

C6_OwnLatestPurchase ==
    /\ (pc = "processed" /\ OwnDates(SeedCustomer) # {})
          => reference_date = MaxOfSet(OwnDates(SeedCustomer))
    /\ pc = "reported" =>
          \A c \in CustomerIds : OwnDates(c) # {} => acf_reference = MaxOfSet(OwnDates(c))

\* C6, amended: _run_frequency_analysis hands the engine the latest purchase
\* date of the customer's own events for every item (the wall clock only
\* when there is none); analyze_customer_frequency hands it the latest
\* pickup date of the whole dataset, all customers together, for every item
\* of every customer.
C6_ReferenceDates ==
    /\ pc = "processed" =>
          /\ reference_date = IF OwnDates(SeedCustomer) # {}
                              THEN MaxOfSet(OwnDates(SeedCustomer)) ELSE now
          /\ \A i \in DOMAIN frequency_results :
                frequency_results[i].days_since_last
                   = reference_date
                     - MaxOfSet({d \in OwnDates(SeedCustomer) :
                            Occurrences(DatesOf(dataset[SeedCustomer],
                                                frequency_results[i].name), d) > 0})
    /\ pc = "reported" =>
          /\ acf_reference = IF DatasetDates # {} THEN MaxOfSet(DatasetDates) ELSE now
          /\ \A c \in CustomerIds : \A i \in DOMAIN ReportOf(c) :
                ReportOf(c)[i].days_since_last
                   = acf_reference
                     - MaxOfSet({d \in OwnDates(c) :
                            Occurrences(DatesOf(dataset[c], ReportOf(c)[i].name), d) > 0})

\* the first customer's item is scored against the other customer's date
C6_Witness ==
    /\ pc = "reported"
    /\ ReportOf("c1") # <<>>
    /\ MaxOfSet(OwnDates("c1")) = 0
    /\ acf_reference = 7
    /\ ReportOf("c1")[1].days_since_last = 7

\* the item names of a customer's receipts, in the order of the events
RECURSIVE Flatten(_)
Flatten(rs) == IF rs = <<>> THEN <<>> ELSE Head(rs).items \o Flatten(Tail(rs))

FirstSeen(rs, n) ==
    LET f == Flatten(rs)
    IN  CHOOSE i \in DOMAIN f : f[i] = n /\ \A j \in 1..(i - 1) : f[j] # n

DistinctItems(rs) == {n \in ItemNames : Len(DatesOf(rs, n)) > 0}

\* equal confidence: the item first met in the events comes first
TiesInFirstSeenOrder(results, rs) ==
    \A i \in DOMAIN results, j \in DOMAIN results :
        (i < j /\ results[i].confidence = results[j].confidence)
            => FirstSeen(rs, results[i].name) < FirstSeen(rs, results[j].name)

Processed == pc \in {"processed", "served"}

CadenceOf(avg) ==
    IF avg <= 80 THEN "weekly"
    ELSE IF avg <= 160 THEN "bi-weekly"
    ELSE IF avg <= 240 THEN "every 3 weeks"
    ELSE "monthly"

RepresentativeDays(avg) ==
    IF avg <= 80 THEN 7 ELSE IF avg <= 160 THEN 14 ELSE IF avg <= 240 THEN 21 ELSE 30

\* C11: the report printer, _enrich_recommendation and the Llama fallback
\* heuristic each map every non-negative average interval to the one label
\* of weekly, bi-weekly, every 3 weeks, monthly that the bands <= 8, <= 16,
\* <= 24, otherwise give.  (The code's three places disagree between 16 and
\* 24 days: "every 3 weeks", "tri-weekly" and "monthly".)
C11_OneBandMapping ==
    pc = "cadence" =>
        /\ printed_suggestion # NotRun =>
              printed_suggestion.suggestion = CadenceOf(interval_input)
        /\ enriched # NotRun =>
              enriched.subscription.frequency = CadenceOf(interval_input)
        /\ ai_suggestion # NotRun =>
              ai_suggestion.frequency = CadenceOf(interval_input)

\* C14: among the results of equal confidence the order is the order in which
\* the item names were first met in the customer's events, in the results of
\* _run_frequency_analysis, in the recommendations and in the report.
C14_StableTies ==
    /\ Processed =>
          /\ TiesInFirstSeenOrder(frequency_results, dataset[SeedCustomer])
          /\ TiesInFirstSeenOrder(recommendations, dataset[SeedCustomer])
    /\ pc = "reported" =>
          \A c \in CustomerIds : TiesInFirstSeenOrder(ReportOf(c), dataset[c])

\* "b" and "a" are always bought together, "b" listed first
C14_Witness ==
    /\ pc = "processed"
    /\ Len(frequency_results) = 2
    /\ frequency_results[1].name = "b"
    /\ frequency_results[2].name = "a"
    /\ frequency_results[1].confidence = frequency_results[2].confidence
    /\ recommendations = frequency_results

\* C15: the count of items reported with the recommendations is the number
\* of distinct item names in the customer's events before filtering, so it is
\* zero only without events.  (The code counts the results after filtering.)
C15_ItemsConsidered ==
    Processed =>
        /\ steps.items_analyzed = Cardinality(DistinctItems(dataset[SeedCustomer]))
        /\ metadata.total_analyzed = Cardinality(DistinctItems(dataset[SeedCustomer]))

\* C16: purchases of an item on one date that come from distinct receipts are
\* each kept: the item's count is the number of receipts listing it and its
\* average interval and standard deviation are those of the history with the
\* 0-day intervals in it.
C16_SameDayPurchasesKept ==
    /\ pc = "processed" =>
          \A i \in DOMAIN frequency_results :
             LET ds == DatesOf(dataset[SeedCustomer], frequency_results[i].name)
                 iv == intervals(sorted(ds))
             IN  /\ frequency_results[i].count = Len(ds)
                 /\ frequency_results[i].avg_interval
                       = Round((max(ds) - earliest(ds)) * 10, Len(ds) - 1)
                 /\ frequency_results[i].std_dev = Round(std_dev(iv) * 10, Unit)
    /\ pc = "reported" =>
          \A c \in CustomerIds : \A i \in DOMAIN ReportOf(c) :
             LET ds == DatesOf(dataset[c], ReportOf(c)[i].name)
                 iv == intervals(sorted(ds))
             IN  /\ ReportOf(c)[i].count = Len(ds)
                 /\ ReportOf(c)[i].avg_interval
                       = Round((max(ds) - earliest(ds)) * 10, Len(ds) - 1)
                 /\ ReportOf(c)[i].std_dev = Round(std_dev(iv) * 10, Unit)

\* two receipts of day 0 and one of day 7: three purchases, intervals 0 and 7
C16_Witness ==
    /\ pc = "processed"
    /\ Len(dataset[SeedCustomer]) = 3
    /\ dataset[SeedCustomer][1].pickup_date = dataset[SeedCustomer][2].pickup_date
    /\ \E i \in DOMAIN frequency_results :
          /\ frequency_results[i].name = "a"
          /\ frequency_results[i].count = 3
          /\ frequency_results[i].avg_interval = 35
          /\ frequency_results[i].std_dev = 49

\* C17: an item bought once is in no result list, whatever the thresholds,
\* min_purchases 1 and min_confidence 0 included.
C17_SinglePurchaseExcluded ==
    /\ Processed =>
          \A n \in ItemNames :
             Len(DatesOf(dataset[SeedCustomer], n)) = 1
                => n \notin (NamesIn(frequency_results) \cup NamesIn(recommendations))
    /\ pc = "reported" =>
          \A c \in CustomerIds : \A n \in ItemNames :
             Len(DatesOf(dataset[c], n)) = 1 => n \notin NamesIn(ReportOf(c))

\* no thresholds: "a", bought twice, is in; "c", bought once, is not
C17_Witness ==
    /\ pc = "processed"
    /\ min_purchases = 1
    /\ min_confidence = 0
    /\ Len(DatesOf(dataset[SeedCustomer], "c")) = 1
    /\ NamesIn(frequency_results) = {"a"}

\* C18: for a customer without purchase events the analysis completes, with
\* the wall clock as reference date, and the result and recommendation lists
\* are empty.
C18_NoEventsNoRecommendations ==
    (Processed /\ DistinctItems(dataset[SeedCustomer]) = {}) =>
        /\ frequency_results = <<>>
        /\ recommendations = <<>>
        /\ reference_date = now

\* a customer whose only receipt lists no item
C18_Witness ==
    /\ pc = "processed"
    /\ Len(dataset[SeedCustomer]) = 1
    /\ dataset[SeedCustomer][1].items = <<>>
    /\ frequency_results = <<>>
    /\ reference_date = now

\* C19: every statistics record that _enrich_recommendation enriches gets the
\* interval_days of the band of its average interval: 7 up to 8 days, 14 up
\* to 16, 21 up to 24, otherwise 30.  (The code reads avg_interval_days, a
\* key the records of calculate_item_statistics do not have, and falls back
\* to 30 days.)
C19_IntervalDaysOfBand ==
    pc = "served" =>
        \A i \in DOMAIN recommendations :
           "subscription" \in DOMAIN recommendations[i]
              => recommendations[i].subscription.interval_days
                    = RepresentativeDays(recommendations[i].avg_interval)

\* C20: with the same min_confidence, generate_recommendations keeps every
\* item _run_frequency_analysis emitted: filtered_count is the number of
\* items passed in.  (The code reads confidence_score, a key the records do
\* not have, and compares 0 with min_confidence.)
C20_FiltersAgree ==
    (pc = "served" /\ services.enable_sagemaker) =>
        /\ \A i \in DOMAIN frequency_results :
              frequency_results[i].confidence >= min_confidence
        /\ metadata.filtered_count = Len(frequency_results)

\* the recurring items a report lists for customer c
EntryOf(rep, c) ==
    IF \E k \in DOMAIN rep : rep[k].customer_id = c
    THEN rep[CHOOSE k \in DOMAIN rep : rep[k].customer_id = c].recurring_items
    ELSE <<>>

\* the dataset with the receipts of every customer but c removed
OthersRemoved(c) == [d \in CustomerIds |-> IF d = c THEN dataset[c] ELSE <<>>]

\* the dataset with the receipts of every customer but c replaced by one
\* receipt without items, picked up on the day ref
OthersReplaced(c, ref) ==
    [d \in CustomerIds |->
        IF d = c THEN dataset[c] ELSE <<[pickup_date |-> ref, items |-> <<>>]>>]

\* analyze_customer_frequency run on another dataset, same thresholds and clock
ReportOn(ds) ==
    acf_report(ds, CustomerOrder, acf_reference_date(ds, CustomerOrder, now),
               min_purchases, min_confidence, 0, limit_customers)

\* C21 as stated: the recurring items and scores analyze_customer_frequency
\* reports for a customer depend only on that customer's receipts, i.e. they
\* are the ones reported when all other customers' receipts are taken away.
C21_OwnEventsOnly ==
    pc = "reported" =>
        \A c \in CustomerIds : ReportOf(c) = EntryOf(ReportOn(OthersRemoved(c)), c)

\* C21: two datasets that agree on a customer's receipts and on the most
\* recent pickup date of the whole dataset give that customer the same
\* recurring items with the same scores; the seed customer's results of
\* process_seed_purchase depend on the seed customer's receipts alone.
C21_SameReferenceSameReport ==
    /\ pc = "reported" =>
          \A c \in CustomerIds :
             ReportOf(c) = EntryOf(ReportOn(OthersReplaced(c, acf_reference)), c)
    /\ pc = "processed" =>
          frequency_results
             = run_frequency_analysis(dataset[SeedCustomer], now, min_purchases,
                                      min_confidence).results

\* c1 is reported while c2 has the latest receipt of the dataset
C21_Witness ==
    /\ pc = "reported"
    /\ ReportOf("c1") # <<>>
    /\ dataset["c2"] # <<>>
    /\ \A i \in DOMAIN dataset["c1"] : dataset["c1"][i].pickup_date < acf_reference
    /\ ReportOf("c1") # EntryOf(ReportOn(OthersRemoved("c1")), "c1")

\* C22: after the Llama enhancement, whatever each item's calls did, the
\* result list has the length and the item order of the list of step 4, every
\* field of every item of step 4 is still there with its value, and the only
\* keys added are ai_suggestion, related_products and product_info.
C22_EnhancementKeepsCore ==
    pc = "enhanced" =>
        /\ Len(frequency_results) = Len(core_results)
        /\ \A i \in DOMAIN core_results :
              /\ \A k \in DOMAIN core_results[i] :
                    /\ k \in DOMAIN frequency_results[i]
                    /\ frequency_results[i][k] = core_results[i][k]
              /\ DOMAIN frequency_results[i] \ DOMAIN core_results[i]
                    \subseteq {"ai_suggestion", "related_products", "product_info"}

\* six items, the first five enhanced: one answered, one fell back, one raised
C22_Witness ==
    /\ pc = "enhanced"
    /\ Len(core_results) = 6
    /\ {llama_outcomes[i] : i \in DOMAIN llama_outcomes} = LlamaOutcomes
    /\ "ai_suggestion" \in DOMAIN frequency_results[1]
    /\ frequency_results[1].ai_suggestion.confidence # frequency_results[1].confidence
    /\ "ai_suggestion" \notin DOMAIN frequency_results[6]

\* the items a receipt lists ("items" missing: none)
ItemsOf(r) == get(r, "items", <<>>)

\* the receipt is one the aggregation loop of _run_frequency_analysis leaves
\* through its except branch
SkippedByOrchestrator(r) ==
    ~date_parses(r) \/ \E i \in DOMAIN ItemsOf(r) : ItemsOf(r)[i] = NoName

\* the same for the loop of analyze_customer_frequency, which reads
\* receipt['items'] without a default
SkippedByReport(r) == SkippedByOrchestrator(r) \/ "items" \notin DOMAIN r

NoneSkipped == \A i \in DOMAIN dataset[SeedCustomer] :
                  ~SkippedByReport(dataset[SeedCustomer][i])

\* the receipts of the seed customer that list the item
ReceiptsListing(n) ==
    {k \in DOMAIN dataset[SeedCustomer] :
        \E i \in DOMAIN ItemsOf(dataset[SeedCustomer][k]) :
           ItemsOf(dataset[SeedCustomer][k])[i] = n}

\* C23: an item's purchase history holds one date per receipt that lists the
\* item, however often the receipt lists it: where no receipt is skipped, the
\* count of every analysed item is the number of receipts listing it.  (Both
\* aggregation loops append the date once per listing.)
C23_OneDatePerReceipt ==
    NoneSkipped =>
        /\ pc = "processed" =>
              \A i \in DOMAIN frequency_results :
                 frequency_results[i].count
                    = Cardinality(ReceiptsListing(frequency_results[i].name))
        /\ pc = "reported" =>
              \A i \in DOMAIN ReportOf(SeedCustomer) :
                 ReportOf(SeedCustomer)[i].count
                    = Cardinality(ReceiptsListing(ReportOf(SeedCustomer)[i].name))

\* the seed customer's receipts without the ones each loop skips
KeptByOrchestrator ==
    SelectSeq(dataset[SeedCustomer], LAMBDA r : ~SkippedByOrchestrator(r))

KeptByReport ==
    [dataset EXCEPT ![SeedCustomer] = SelectSeq(@, LAMBDA r : ~SkippedByReport(r))]

\* C24: a receipt that is skipped on a ValueError or KeyError leaves no trace
\* in the aggregation: the results and the reference date are those of the
\* dataset without the skipped receipts.  (Both loops keep the dates appended
\* before a nameless item raises; analyze_customer_frequency updates
\* most_recent_date before it reads the items.)
C24_SkippedReceiptsLeaveNoTrace ==
    /\ pc = "processed" =>
          \E r \in {run_frequency_analysis(KeptByOrchestrator,
                                           now, min_purchases, min_confidence)} :
             /\ frequency_results = r.results
             /\ reference_date = r.reference_date
    /\ pc = "reported" =>
          /\ acf_reference = acf_reference_date(KeptByReport, CustomerOrder, now)
          /\ ReportOf(SeedCustomer)
                = EntryOf(ReportOn(KeptByReport), SeedCustomer)

\* the confidence_score _fallback_recommendations sorts by
ScoreOf(item) == get(item, "confidence_score", 0)

\* C25: get_recommendations returns a list of at most top_k recommendations
\* whatever the endpoint does, and when the endpoint fails the list is the
\* top_k input items in non-increasing confidence_score order.  (When the
\* endpoint answers, its list is returned as it is, however long.)
C25_AtMostTopK ==
    pc = "recommended" =>
        /\ Len(sm_returned) <= sm_top_k
        /\ "raises" \in DOMAIN sm_outcome =>
              /\ Len(sm_returned) = Min(sm_top_k, Len(sm_items))
              /\ \A i \in 1..(Len(sm_returned) - 1) :
                    ScoreOf(sm_returned[i]) >= ScoreOf(sm_returned[i + 1])
              /\ \A i \in DOMAIN sm_returned : \A k \in DOMAIN sm_items :
                    (\A j \in DOMAIN sm_returned : sm_returned[j].name # sm_items[k].name)
                       => ScoreOf(sm_items[k]) <= ScoreOf(sm_returned[i])

\* the calendar month of a receipt whose date parses, as months since year 0
MonthOf(r) == strptime(r.pickup_date).year * 12 + strptime(r.pickup_date).month

\* the positions in the input of the receipts whose date parses
Parseable == {k \in DOMAIN st_receipts : date_parses(st_receipts[k])}

\* the calendar month a yielded month data speaks of
MonthYielded(md) == md.month_display.year * 12 + md.month_display.month

\* C26: stream_monthly_data yields the months in strictly ascending
\* chronological order, the i-th with progress.current = i and the total
\* number of months, every receipt in it of that month; when the generator is
\* exhausted every month with a receipt was yielded exactly once, the last
\* one at 100%, every receipt with a parseable date is in exactly one yielded
\* month and the receipt_count values sum to the number of such receipts.
C26_MonthsOnceAscending ==
    /\ pc # "stream_failed"
    /\ \A i \in DOMAIN st_yielded :
          /\ st_yielded[i].progress.current = i
          /\ st_yielded[i].progress.total = Len(st_months)
          /\ st_yielded[i].receipt_count = Len(st_yielded[i].receipts)
          /\ st_yielded[i].receipt_count >= 1
          /\ \A k \in DOMAIN st_yielded[i].receipts :
                MonthOf(st_yielded[i].receipts[k]) = MonthYielded(st_yielded[i])
          /\ \A j \in DOMAIN st_yielded :
                i < j => MonthYielded(st_yielded[i]) < MonthYielded(st_yielded[j])
    /\ pc = "stream_done" =>
          /\ {MonthYielded(st_yielded[i]) : i \in DOMAIN st_yielded}
                = {MonthOf(st_receipts[k]) : k \in Parseable}
          /\ st_yielded # <<>> => st_yielded[Len(st_yielded)].progress.percentage = 1000
          /\ \A k \in Parseable :
                Cardinality({i \in DOMAIN st_yielded :
                                \E n \in DOMAIN st_yielded[i].receipts :
                                   st_yielded[i].receipts[n] = st_receipts[k]}) = 1
          /\ SumSeq([i \in DOMAIN st_yielded |-> st_yielded[i].receipt_count])
                = Cardinality(Parseable)

\* a receipt of January 2024 handed over before one of December 2023 and one
\* without a date: two months yielded, December first
C26_Witness ==
    /\ pc = "stream_done"
    /\ Len(st_receipts) = 3
    /\ Cardinality(Parseable) = 2
    /\ date_parses(st_receipts[1]) /\ date_parses(st_receipts[2])
    /\ MonthOf(st_receipts[1]) = 2024 * 12 + 1
    /\ MonthOf(st_receipts[2]) = 2023 * 12 + 12
    /\ Len(st_yielded) = 2
    /\ st_yielded[1].progress.percentage = 500

\* the position in the log of the event of a kind for the idx-th month
EventsAt(event, idx) ==
    {k \in DOMAIN st_log : st_log[k].event = event /\ st_log[k].idx = idx}

\* C27: with a callback, the callback for a month is awaited before the
\* month is yielded, exactly once; a callback that raises does not end the
\* generator: the month it raised for and the later months are yielded, in
\* order, and the exhausted generator has yielded every month.
C27_CallbackBeforeYield ==
    /\ pc # "stream_failed"
    /\ st_callback =>
          \A y \in DOMAIN st_log :
             st_log[y].event = "yield" =>
                /\ Cardinality(EventsAt("callback", st_log[y].idx)) = 1
                /\ \A k \in EventsAt("callback", st_log[y].idx) : k < y
    /\ \A k \in DOMAIN st_log :
          (st_log[k].event = "callback" /\ pc \in {"stream_suspended", "stream_done"})
             => EventsAt("yield", st_log[k].idx) # {}
    /\ pc = "stream_done" =>
          /\ Len(st_yielded) = Len(st_months)
          /\ \A i \in DOMAIN st_yielded : st_yielded[i].month = st_months[i].month

\* three months, the callback raised for the first and the third
C27_Witness ==
    /\ pc = "stream_done"
    /\ st_callback
    /\ Len(st_yielded) = 3
    /\ \E k \in EventsAt("callback", 1) : st_log[k].outcome = "raises"
    /\ \E k \in EventsAt("callback", 2) : st_log[k].outcome = "returns"
    /\ \E k \in EventsAt("callback", 3) : st_log[k].outcome = "raises"

\* the positions in ws_sent of the messages of a type
SentAt(type) == {k \in DOMAIN ws_sent : ws_sent[k] = type}

\* "started" before any "monthly_update", "completed" after every
\* "monthly_update" and after process_seed_purchase returned, never both
\* "completed" and "error"
MessageOrder ==
    /\ \A u \in SentAt("monthly_update") : \E k \in SentAt("started") : k < u
    /\ \A k \in SentAt("completed") :
          /\ ws_returned
          /\ ws_streamed = ws_months
          /\ \A u \in SentAt("monthly_update") : u < k
    /\ SentAt("completed") = {} \/ SentAt("error") = {}

\* C28 as stated: the messages come in order and, on every path, the ended
\* handler has called websocket.close() exactly once.
C28_ClosedOnEveryPath ==
    /\ MessageOrder
    /\ ws_closed <= 1
    /\ pc = "ws_ended" => ws_closed = 1

\* C28: the messages come in order; on every path on which websocket.accept()
\* returned, the ended handler has called websocket.close() exactly once,
\* and when accept() raised it has not called it.
C28_ClosedOnceAfterAccept ==
    /\ MessageOrder
    /\ ws_closed <= 1
    /\ pc = "ws_ended" => ws_closed = (IF ws_accepted THEN 1 ELSE 0)

\* the client went away during the stream: "started" and one update sent,
\* a later update and "completed" failed, the socket closed once
C28_Witness ==
    /\ pc = "ws_ended"
    /\ ws_months = 2
    /\ ws_sent = <<"started", "monthly_update">>
    /\ ws_streamed = 2
    /\ ws_returned
    /\ ws_closed = 1

\* the number of batches of a list: the length over batch_size, rounded up
Batches == (Len(dp_embeddings) + dp_batch_size - 1) \div dp_batch_size

\* C29: whatever each insert does, the embeddings of the batches attempted so
\* far are counted exactly once, as inserted or as failed; process_receipts
\* returns after every batch was attempted, with successfully_inserted +
\* failed = total_items_processed.
C29_EveryEmbeddingCounted ==
    /\ pc = "dp_loop" =>
          dp_counters.total_inserted + dp_counters.failed
             = Min(dp_i, Len(dp_embeddings))
    /\ pc = "dp_returned" =>
          /\ dp_result.successfully_inserted + dp_result.failed
                = dp_result.total_items_processed
          /\ dp_result.total_items_processed = Len(dp_embeddings)
          /\ Len(dp_outcomes) = Batches
          /\ dp_result.failed
                = SumSeq([k \in DOMAIN dp_outcomes |->
                            IF dp_outcomes[k] = "true" THEN 0
                            ELSE Len(batch_at(dp_embeddings, (k - 1) * dp_batch_size,
                                              dp_batch_size))])

\* five embeddings in batches of two: the first insert returns False, the
\* second raises, the third succeeds with the one embedding left
C29_Witness ==
    /\ pc = "dp_returned"
    /\ Len(dp_embeddings) = 5
    /\ dp_batch_size = 2
    /\ dp_outcomes = <<"false", "raises", "true">>
    /\ dp_result.failed = 4
    /\ dp_result.successfully_inserted = 1

\* the shopping day a pickup date stands for, counted from the start date
DayOf(pickup_date) == CHOOSE d \in 0..61 : strftime_day(d) = pickup_date

\* one calendar date before another
DateLess(a, b) ==
    \/ a.year < b.year
    \/ a.year = b.year /\ a.month < b.month
    \/ a.year = b.year /\ a.month = b.month /\ a.day < b.day

\* the number an order number reads as: "SIM" and then six digits
OrderValue(text) ==
    IF Len(text) = 9 /\ SubSeq(text, 1, 3) = <<83, 73, 77>>
                     /\ \A k \in 4..9 : text[k] \in 48..57
    THEN SumSeq([k \in 1..6 |-> (text[k + 3] - 48) * (10 ^ (6 - k))])
    ELSE 0 - 1

\* receipt k lists the item
Lists(k, name) == \E p \in DOMAIN receipts[k].items : receipts[k].items[p] = name

\* receipts j < k are two consecutive purchases of the item
ConsecutivePurchases(j, k, name) ==
    /\ j < k
    /\ Lists(j, name)
    /\ Lists(k, name)
    /\ \A between \in (j + 1)..(k - 1) : ~Lists(between, name)

ReceiptsInOrder ==
    /\ \A k \in DOMAIN receipts :
          /\ receipts[k].items # <<>>
          /\ OrderValue(receipts[k].order_number) = k
          /\ k > 1 => DateLess(receipts[k - 1].pickup_date, receipts[k].pickup_date)
    /\ \A j, k \in DOMAIN receipts :
          \A name \in {receipts[k].items[p] : p \in DOMAIN receipts[k].items} :
             ConsecutivePurchases(j, k, name) =>
                DayOf(receipts[k].pickup_date) - DayOf(receipts[j].pickup_date)
                   >= item_frequencies[name].avg_days - item_frequencies[name].variance

\* C30: for every archetype and number of months generate_purchase_history
\* returns, and the receipts it has made at any moment, the returned ones
\* included, have strictly increasing pickup dates, non-empty item lists, the
\* order numbers SIM000001, SIM000002, ... and, for each item, consecutive
\* purchases at least avg_days - variance days apart.
C30_ReturnsOrderedReceipts ==
    /\ [](ReceiptsInOrder)
    /\ <>(pc = "sim_returned")

\* a month of the single professional with milk every 10 days or so and rice:
\* milk is bought again exactly 8 days after a purchase, one shopping trip
\* between two receipts brought nothing home
C30_Witness ==
    /\ pc = "sim_returned"
    /\ archetype = "single_professional"
    /\ sim_months = 1
    /\ DOMAIN item_frequencies = {"milk", "rice"}
    /\ item_frequencies["milk"].avg_days = 10
    /\ Len(receipts) >= 3
    /\ \E j, k \in DOMAIN receipts :
          /\ ConsecutivePurchases(j, k, "milk")
          /\ DayOf(receipts[k].pickup_date) - DayOf(receipts[j].pickup_date) = 8
    /\ \E k \in DOMAIN receipts :
          /\ k > 1
          /\ DayOf(receipts[k].pickup_date) - DayOf(receipts[k - 1].pickup_date) = 12
    /\ \E k \in DOMAIN receipts : receipts[k].items = <<"milk", "rice">>

====
